---- MODULE Spec2Model ----
(***************************************************************************)
(* Model of the puzzle-verifier crate: the bounded executor (executor.rs),  *)
(* the pruner (pruning.rs), the domain types (puzzle.rs) and the           *)
(* backtracking search (solver.rs).                                        *)
(*                                                                         *)
(* Option<T> is modelled as a sequence of length <= 1: None is << >> and   *)
(* Some(v) is <<v>>.  Vec<T> is a sequence; the code's 0-based index i is  *)
(* the sequence index i + 1.                                               *)
(***************************************************************************)
EXTENDS Integers, Sequences, FiniteSets, TLC

VARIABLES
    puzzle,          \* the PuzzleConfig argument of execute / find_trivial_solution
    program,         \* execute: the Program argument
    max_steps,       \* execute: the max_steps argument
    state,           \* execute: GridState (tiles, position, direction, stars_remaining)
    metrics,         \* execute: ExecutionMetrics
    stack,           \* execute: the frame stack, top = last element
    visited_tiles,   \* execute: HashSet of visited (x, y)
    seen_states,     \* execute: HashSet of sampled state hashes
    result,          \* execute: Option<ExecutionResult>, None while the loop runs
    call,            \* which of the two successive execute calls is running (1, 2)
    first_result,    \* the ExecutionResult of the first call, None until it returned
    config,          \* find_trivial_solution: the SolverConfig argument
    queue,           \* find_trivial_solution: VecDeque<SearchFrame>, back = last element
    frame,           \* find_trivial_solution: Option<SearchFrame> popped last
    programs_tested, \* find_trivial_solution: counter
    sparse_tested,   \* how many of the programs counted in programs_tested had an
                     \* empty slot (observed at solver.rs:119, not held by the code)
    tested_programs, \* the programs counted in programs_tested so far (observed at
                     \* solver.rs:119, not held by the code)
    now,             \* the last Instant::now() read at the loop top, in ticks since start_time
    executed,        \* find_trivial_solution: Option<Program> last passed to execute
    solver_result,   \* find_trivial_solution: Option<SolverResult>, None while searching
    args,            \* a call of a pure function: the arguments
    ret              \* a call of a pure function: the values returned so far

vars == <<puzzle, program, max_steps, state, metrics, stack, visited_tiles,
          seen_states, result, call, first_result, config, queue, frame,
          programs_tested, sparse_tested, tested_programs, now, executed, solver_result, args, ret>>

exec_vars == <<program, max_steps, state, metrics, stack, visited_tiles,
               seen_states, result, call, first_result>>

search_vars == <<config, queue, frame, programs_tested, sparse_tested, tested_programs, now,
                 executed, solver_result>>

call_vars == <<args, ret>>

None == << >>

Some(v) == <<v>>

Min(a, b) == IF a < b THEN a ELSE b

Max(a, b) == IF a > b THEN a ELSE b

(***************************************************************************)
(* puzzle.rs: domain types                                                 *)
(***************************************************************************)
TileColor == {"Red", "Green", "Blue"}

Direction == {"Up", "Down", "Left", "Right"}

InstructionType ==
    {"Forward", "Left", "Right", "F1", "F2", "F3", "F4", "F5",
     "PaintRed", "PaintGreen", "PaintBlue", "Noop"}

turn_left_Mirrored(d) ==
    CASE d = "Up" -> "Left"
      [] d = "Left" -> "Up"
      [] d = "Down" -> "Right"
      [] d = "Right" -> "Down"

turn_left(d) ==
    CASE d = "Up" -> "Left"
      [] d = "Left" -> "Down"
      [] d = "Down" -> "Right"
      [] d = "Right" -> "Up"

turn_right(d) ==
    CASE d = "Up" -> "Right"
      [] d = "Right" -> "Down"
      [] d = "Down" -> "Left"
      [] d = "Left" -> "Up"

delta(d) ==
    CASE d = "Up" -> <<0, -1>>
      [] d = "Down" -> <<0, 1>>
      [] d = "Left" -> <<-1, 0>>
      [] d = "Right" -> <<1, 0>>

is_function_call(t) == t \in {"F1", "F2", "F3", "F4", "F5"}

is_turn(t) == t \in {"Left", "Right"}

is_paint(t) == t \in {"PaintRed", "PaintGreen", "PaintBlue"}

function_index(t) ==
    CASE t = "F1" -> Some(0)
      [] t = "F2" -> Some(1)
      [] t = "F3" -> Some(2)
      [] t = "F4" -> Some(3)
      [] t = "F5" -> Some(4)
      [] OTHER -> None

paint_color(t) ==
    CASE t = "PaintRed" -> Some("Red")
      [] t = "PaintGreen" -> Some("Green")
      [] t = "PaintBlue" -> Some("Blue")
      [] OTHER -> None

\* Instruction::new / Instruction::with_condition
Instruction(t, cond) == [instruction_type |-> t, condition |-> cond]

Inst(t) == Instruction(t, None)

CondInst(t, c) == Instruction(t, Some(c))

should_execute_ColourlessMatches(inst, tile_color) ==
    inst.condition = None \/ tile_color = None \/ tile_color = inst.condition

should_execute(inst, tile_color) ==
    IF inst.condition = None THEN TRUE ELSE tile_color = inst.condition

Tile(color, has_star) == [color |-> color, has_star |-> has_star]

Position(x, y) == [x |-> x, y |-> y]

\* Program::get_function: a Program is <<f1, f2, f3, f4, f5>>.
get_function(prog, index) == IF index \in 0..4 THEN prog[index + 1] ELSE << >>

\* Program::with_lengths
with_lengths(lengths) == [f \in 1..5 |-> [i \in 1..lengths[f] |-> None]]

RECURSIVE CountSome(_)
CountSome(func) ==
    IF func = << >> THEN 0
    ELSE (IF Head(func) # None THEN 1 ELSE 0) + CountSome(Tail(func))

count_instructions(prog) ==
    CountSome(prog[1]) + CountSome(prog[2]) + CountSome(prog[3])
        + CountSome(prog[4]) + CountSome(prog[5])

\* Program::get: Option<&Instruction>
get(prog, func_index, inst_index) ==
    LET func == get_function(prog, func_index) IN
    IF inst_index + 1 \in 1..Len(func) THEN func[inst_index + 1] ELSE None

\* Program::set and Program::with_instruction
with_instruction(prog, func_index, inst_index, instruction) ==
    LET f == IF func_index \in 0..3 THEN func_index + 1 ELSE 5 IN
    IF inst_index < Len(prog[f])
    THEN [prog EXCEPT ![f][inst_index + 1] = instruction]
    ELSE prog

\* The slots (function, slot) of a program in function/slot order.
SlotsOf(prog) == UNION {{<<f, i>> : i \in 0..(Len(prog[f + 1]) - 1)} : f \in 0..4}

SlotBefore(a, b) == a[1] < b[1] \/ (a[1] = b[1] /\ a[2] < b[2])

FirstSlot(S) ==
    IF S = {} THEN None
    ELSE Some(CHOOSE s \in S : \A t \in S : t = s \/ SlotBefore(s, t))

find_empty_slot(prog) ==
    FirstSlot({s \in SlotsOf(prog) : prog[s[1] + 1][s[2] + 1] = None})

\* PuzzleConfig::get_tile and GridState::get_tile: Option<&Tile>
get_tile(tiles, x, y) ==
    IF y < 0 \/ x < 0 THEN None
    ELSE IF y + 1 > Len(tiles) THEN None
    ELSE IF x + 1 > Len(tiles[y + 1]) THEN None
    ELSE tiles[y + 1][x + 1]

Cells(grid) == UNION {{<<r, c>> : c \in 1..Len(grid[r])} : r \in 1..Len(grid)}

count_stars(grid) ==
    Cardinality({c \in Cells(grid) :
        grid[c[1]][c[2]] # None /\ grid[c[1]][c[2]][1].has_star})

available_colors_WithPaints(p) ==
    {col \in TileColor :
        \/ \E c \in Cells(p.grid) :
              p.grid[c[1]][c[2]] # None /\ p.grid[c[1]][c[2]][1].color = Some(col)
        \/ \E k \in 1..Len(p.allowed_instructions) :
              paint_color(p.allowed_instructions[k]) = Some(col)}

\* PuzzleConfig::available_colors, as the set the HashSet holds
available_colors(p) ==
    {col \in TileColor : \E c \in Cells(p.grid) :
        p.grid[c[1]][c[2]] # None /\ p.grid[c[1]][c[2]][1].color = Some(col)}

(***************************************************************************)
(* executor.rs                                                             *)
(***************************************************************************)
MAX_STACK_DEPTH == 256

HashPeriod == 16

ByteRange == 256

\* StackFrame::new: both indices are cast to u8
StackFrame(func_index, inst_index) == <<func_index % ByteRange, inst_index % ByteRange>>

PushFunction_Ascending(stk, f, len) == stk \o [k \in 1..len |-> StackFrame(f, k - 1)]

\* for i in (0..len).rev() { stack.push(StackFrame::new(f, i)) }
PushFunction(stk, f, len) == stk \o [k \in 1..len |-> StackFrame(f, len - k)]

from_puzzle(p) ==
    [tiles |-> p.grid,
     position |-> p.robot_start.position,
     direction |-> p.robot_start.direction,
     stars_remaining |-> count_stars(p.grid)]

current_tile(st) == get_tile(st.tiles, st.position.x, st.position.y)

current_color(st) ==
    IF current_tile(st) = None THEN None ELSE current_tile(st)[1].color

create_state_hash_WithColour(st, stk) ==
    <<st.position.x, st.position.y, st.direction, st.stars_remaining,
      SubSeq(stk, Max(Len(stk) - 4, 0) + 1, Len(stk)), Len(stk),
      get_tile(st.tiles, st.position.x, st.position.y)>>

\* The byte stream fed to the hasher: x, y, direction, stars_remaining, the
\* last <= 4 frames of the stack, the stack length.  The 64-bit SipHash of the
\* stream is modelled by the stream itself.
create_state_hash(st, stk) ==
    <<st.position.x, st.position.y, st.direction, st.stars_remaining,
      SubSeq(stk, Max(Len(stk) - 4, 0) + 1, Len(stk)), Len(stk)>>

\* The locals of execute after lines 141-168, before the loop.
ExecuteInit(p, prog) ==
    LET st == from_puzzle(p) IN
    [state |-> st,
     metrics |-> [steps |-> 0,
                  instructions |-> count_instructions(prog),
                  max_stack_depth |-> 0,
                  conditionals_executed |-> 0,
                  functions_called |-> 0,
                  tiles_visited |-> 1,
                  stars_collected |-> 0,
                  total_stars |-> st.stars_remaining,
                  paints_executed |-> 0],
     stack |-> IF Len(prog[1]) > 0 THEN PushFunction(<< >>, 0, Len(prog[1])) ELSE << >>,
     visited_tiles |-> {<<st.position.x, st.position.y>>},
     seen_states |-> {},
     result |-> None]

Return_AlwaysSolved(m, status, solved) ==
    [m EXCEPT !.result = Some([status |-> status, metrics |-> m.metrics, solved |-> TRUE])]

\* return ExecutionResult { status, metrics, solved }
Return(m, status, solved) ==
    [m EXCEPT !.result = Some([status |-> status, metrics |-> m.metrics, solved |-> solved])]

\* lines 323-331: F1 auto-loop after a dispatched instruction
RestartF1(m, prog) ==
    IF m.stack = << >> /\ Len(prog[1]) > 0
    THEN [m EXCEPT !.stack = PushFunction(<< >>, 0, Len(prog[1]))]
    ELSE m

DoForward_SolvedOnAnyStar(m) ==
    LET d == delta(m.state.direction)
        new_x == m.state.position.x + d[1]
        new_y == m.state.position.y + d[2]
        dest == get_tile(m.state.tiles, new_x, new_y)
        fresh == <<new_x, new_y>> \notin m.visited_tiles
        moved == [m EXCEPT !.state.position = Position(new_x, new_y),
                           !.visited_tiles = @ \cup {<<new_x, new_y>>},
                           !.metrics.tiles_visited = IF fresh THEN @ + 1 ELSE @]
        collected == [moved EXCEPT !.state.tiles[new_y + 1][new_x + 1] =
                                        Some([dest[1] EXCEPT !.has_star = FALSE]),
                                   !.state.stars_remaining = @ - 1,
                                   !.metrics.stars_collected = @ + 1]
    IN  IF dest = None THEN Return(m, "Fell", FALSE)
        ELSE IF ~dest[1].has_star THEN moved
        ELSE Return(collected, "Solved", TRUE)

DoForward_MoveThenFall(m) ==
    LET d == delta(m.state.direction)
        new_x == m.state.position.x + d[1]
        new_y == m.state.position.y + d[2]
        dest == get_tile(m.state.tiles, new_x, new_y)
        fresh == <<new_x, new_y>> \notin m.visited_tiles
        moved == [m EXCEPT !.state.position = Position(new_x, new_y),
                           !.visited_tiles = @ \cup {<<new_x, new_y>>},
                           !.metrics.tiles_visited = IF fresh THEN @ + 1 ELSE @]
        collected == [moved EXCEPT !.state.tiles[new_y + 1][new_x + 1] =
                                        Some([dest[1] EXCEPT !.has_star = FALSE]),
                                   !.state.stars_remaining = @ - 1,
                                   !.metrics.stars_collected = @ + 1]
    IN  IF dest = None THEN Return(moved, "Fell", FALSE)
        ELSE IF ~dest[1].has_star THEN moved
        ELSE IF collected.state.stars_remaining = 0
             THEN Return(collected, "Solved", TRUE)
             ELSE collected

DoForward_CountsEveryMove(m) ==
    LET d == delta(m.state.direction)
        new_x == m.state.position.x + d[1]
        new_y == m.state.position.y + d[2]
        dest == get_tile(m.state.tiles, new_x, new_y)
        moved == [m EXCEPT !.state.position = Position(new_x, new_y),
                           !.visited_tiles = @ \cup {<<new_x, new_y>>},
                           !.metrics.tiles_visited = @ + 1]
        collected == [moved EXCEPT !.state.tiles[new_y + 1][new_x + 1] =
                                        Some([dest[1] EXCEPT !.has_star = FALSE]),
                                   !.state.stars_remaining = @ - 1,
                                   !.metrics.stars_collected = @ + 1]
    IN  IF dest = None THEN Return(m, "Fell", FALSE)
        ELSE IF ~dest[1].has_star THEN moved
        ELSE IF collected.state.stars_remaining = 0
             THEN Return(collected, "Solved", TRUE)
             ELSE collected

DoForward_KeepsStar(m) ==
    LET d == delta(m.state.direction)
        new_x == m.state.position.x + d[1]
        new_y == m.state.position.y + d[2]
        dest == get_tile(m.state.tiles, new_x, new_y)
        fresh == <<new_x, new_y>> \notin m.visited_tiles
        moved == [m EXCEPT !.state.position = Position(new_x, new_y),
                           !.visited_tiles = @ \cup {<<new_x, new_y>>},
                           !.metrics.tiles_visited = IF fresh THEN @ + 1 ELSE @]
        collected == [moved EXCEPT !.state.stars_remaining = @ - 1,
                                   !.metrics.stars_collected = @ + 1]
    IN  IF dest = None THEN Return(m, "Fell", FALSE)
        ELSE IF ~dest[1].has_star THEN moved
        ELSE IF collected.state.stars_remaining = 0
             THEN Return(collected, "Solved", TRUE)
             ELSE collected

\* lines 231-270: InstructionType::Forward
DoForward(m) ==
    LET d == delta(m.state.direction)
        new_x == m.state.position.x + d[1]
        new_y == m.state.position.y + d[2]
        dest == get_tile(m.state.tiles, new_x, new_y)
        fresh == <<new_x, new_y>> \notin m.visited_tiles
        moved == [m EXCEPT !.state.position = Position(new_x, new_y),
                           !.visited_tiles = @ \cup {<<new_x, new_y>>},
                           !.metrics.tiles_visited = IF fresh THEN @ + 1 ELSE @]
        collected == [moved EXCEPT !.state.tiles[new_y + 1][new_x + 1] =
                                        Some([dest[1] EXCEPT !.has_star = FALSE]),
                                   !.state.stars_remaining = @ - 1,
                                   !.metrics.stars_collected = @ + 1]
    IN  IF dest = None THEN Return(m, "Fell", FALSE)
        ELSE IF ~dest[1].has_star THEN moved
        ELSE IF collected.state.stars_remaining = 0
             THEN Return(collected, "Solved", TRUE)
             ELSE collected

\* lines 280-295: InstructionType::F1..F5
DoCall(m, prog, t) ==
    LET target_func == function_index(t)[1]
        func_len == Len(get_function(prog, target_func))
    IN  IF func_len > 0
        THEN [m EXCEPT !.metrics.functions_called = @ + 1,
                       !.stack = PushFunction(@, target_func, func_len)]
        ELSE m

DoPaint_KeepsColour(m, t) ==
    IF get_tile(m.state.tiles, m.state.position.x, m.state.position.y) # None
    THEN [m EXCEPT !.metrics.paints_executed = @ + 1]
    ELSE m

DoPaint_ClearsStar(m, t) ==
    LET x == m.state.position.x
        y == m.state.position.y
    IN  IF get_tile(m.state.tiles, x, y) # None
        THEN [m EXCEPT !.state.tiles[y + 1][x + 1] = Some(Tile(paint_color(t), FALSE)),
                       !.metrics.paints_executed = @ + 1]
        ELSE m

\* lines 297-316: InstructionType::PaintRed / PaintGreen / PaintBlue
DoPaint(m, t) ==
    LET x == m.state.position.x
        y == m.state.position.y
    IN  IF get_tile(m.state.tiles, x, y) # None
        THEN [m EXCEPT !.state.tiles[y + 1][x + 1] =
                            Some([@[1] EXCEPT !.color = paint_color(t)]),
                       !.metrics.paints_executed = @ + 1]
        ELSE m

\* lines 230-321: match instruction.instruction_type
Dispatch(m, prog, t) ==
    CASE t = "Forward" -> DoForward(m)
      [] t = "Left" -> [m EXCEPT !.state.direction = turn_left(@)]
      [] t = "Right" -> [m EXCEPT !.state.direction = turn_right(@)]
      [] is_function_call(t) -> DoCall(m, prog, t)
      [] is_paint(t) -> DoPaint(m, t)
      [] t = "Noop" -> m

StepLimitReached_OffByOne(m, limit) == m.metrics.steps > limit

\* lines 172-178: the step limit check at the top of the loop body
StepLimitReached(m, limit) == m.metrics.steps >= limit

StackTooDeep_AtCap(m) == Len(m.stack) >= MAX_STACK_DEPTH

\* lines 180-187: the stack depth check
StackTooDeep(m) == Len(m.stack) > MAX_STACK_DEPTH

PopFrame_KeepFrame(m) ==
    [m EXCEPT !.metrics.max_stack_depth = Max(@, Len(m.stack))]

\* lines 189-194: peak depth update and pop
PopFrame(m) ==
    [m EXCEPT !.metrics.max_stack_depth = Max(@, Len(m.stack)),
              !.stack = SubSeq(@, 1, Len(@) - 1)]

TopFrame(m) == m.stack[Len(m.stack)]

\* lines 197-200: the instruction of the popped frame
FrameInstruction(m, prog) == get(prog, TopFrame(m)[1], TopFrame(m)[2])

CountConditional_Twice(m, inst) ==
    IF inst.condition # None
    THEN [m EXCEPT !.metrics.conditionals_executed = @ + 2]
    ELSE m

\* lines 208-211: conditional counter
CountConditional(m, inst) ==
    IF inst.condition # None
    THEN [m EXCEPT !.metrics.conditionals_executed = @ + 1]
    ELSE m

Sampled_HalfAsOften(m) == m.metrics.steps % (2 * HashPeriod) = 0

\* line 215: is the state sampled at this charged instruction
Sampled(m) == m.metrics.steps % HashPeriod = 0

\* One pass through the body of `while !stack.is_empty()` (lines 170-332),
\* or the fall-through return of lines 334-339 when the stack is empty.
LoopIteration(prog, limit, m) ==
    IF m.stack = << >> THEN Return(m, "Timeout", FALSE)
    ELSE IF StepLimitReached(m, limit) THEN Return(m, "Timeout", FALSE)
    ELSE IF StackTooDeep(m) THEN Return(m, "StackOverflow", FALSE)
    ELSE
      LET instruction == FrameInstruction(m, prog)
          popped == PopFrame(m)
      IN  IF instruction = None THEN popped
          ELSE IF ~should_execute(instruction[1], current_color(popped.state)) THEN popped
          ELSE
            LET counted == CountConditional(popped, instruction[1])
                state_hash == create_state_hash(counted.state, counted.stack)
            IN  IF Sampled(counted) /\ state_hash \in counted.seen_states
                THEN Return(counted, "Cycle", FALSE)
                ELSE
                  LET charged ==
                          [counted EXCEPT
                              !.seen_states = IF Sampled(counted)
                                              THEN @ \cup {state_hash} ELSE @,
                              !.metrics.steps = @ + 1]
                      done == Dispatch(charged, prog, instruction[1].instruction_type)
                  IN  IF done.result # None THEN done ELSE RestartF1(done, prog)

RECURSIVE RunLoop(_, _, _)
RunLoop(prog, limit, m) ==
    IF m.result # None THEN m ELSE RunLoop(prog, limit, LoopIteration(prog, limit, m))

execute_BudgetAsCycle(p, prog, limit) ==
    LET r == RunLoop(prog, limit, ExecuteInit(p, prog)).result[1]
    IN  IF r.status = "Timeout" /\ r.metrics.steps >= limit
        THEN [r EXCEPT !.status = "Cycle"]
        ELSE r

\* execute(puzzle, program, max_steps) -> ExecutionResult
execute(p, prog, limit) == RunLoop(prog, limit, ExecuteInit(p, prog)).result[1]

(***************************************************************************)
(* pruning.rs                                                              *)
(***************************************************************************)
is_banned_pair_WithoutRule6(a, b, p) ==
    IF a.instruction_type = "Noop" \/ b.instruction_type = "Noop" THEN FALSE
    ELSE IF /\ a.condition = b.condition
            /\ is_turn(a.instruction_type)
            /\ is_turn(b.instruction_type)
            /\ a.instruction_type # b.instruction_type
         THEN TRUE
    ELSE IF /\ a.condition = b.condition
            /\ is_paint(a.instruction_type)
            /\ is_paint(b.instruction_type)
         THEN TRUE
    ELSE IF /\ a.condition = None
            /\ is_paint(a.instruction_type)
            /\ b.condition = paint_color(a.instruction_type)
            /\ is_paint(b.instruction_type)
         THEN TRUE
    ELSE FALSE

is_banned_pair(a, b, p) ==
    IF a.instruction_type = "Noop" \/ b.instruction_type = "Noop" THEN FALSE
    \* Rule 1
    ELSE IF /\ a.condition = b.condition
            /\ is_turn(a.instruction_type)
            /\ is_turn(b.instruction_type)
            /\ \/ a.instruction_type = "Left" /\ b.instruction_type = "Right"
               \/ a.instruction_type = "Right" /\ b.instruction_type = "Left"
         THEN TRUE
    \* Rule 2
    ELSE IF /\ a.condition = b.condition
            /\ is_paint(a.instruction_type)
            /\ is_paint(b.instruction_type)
         THEN TRUE
    \* Rule 3
    ELSE IF /\ a.condition = None
            /\ is_paint(a.instruction_type)
            /\ b.condition = paint_color(a.instruction_type)
            /\ is_paint(b.instruction_type)
         THEN TRUE
    \* Rule 4
    ELSE IF /\ is_turn(a.instruction_type)
            /\ is_turn(b.instruction_type)
            /\ a.condition = b.condition
            /\ a.instruction_type = "Right"
            /\ b.instruction_type = "Left"
         THEN TRUE
    \* Rule 6
    ELSE IF /\ is_paint(a.instruction_type)
            /\ b.condition = paint_color(a.instruction_type)
            /\ b.instruction_type = a.instruction_type
         THEN TRUE
    ELSE FALSE

is_banned_trio_AfterAnyPaint(a, b, c, p) ==
    IF is_banned_pair(a, b, p) \/ is_banned_pair(b, c, p) THEN TRUE
    ELSE IF /\ a.condition = b.condition
            /\ b.condition = c.condition
            /\ is_turn(a.instruction_type)
            /\ is_turn(b.instruction_type)
            /\ is_turn(c.instruction_type)
            /\ a.instruction_type = b.instruction_type
            /\ b.instruction_type = c.instruction_type
         THEN TRUE
    ELSE IF /\ is_paint(a.instruction_type)
            /\ (is_turn(b.instruction_type) \/ b.instruction_type = "Noop")
            /\ c.condition # None
            /\ c.condition # paint_color(a.instruction_type)
         THEN TRUE
    ELSE FALSE

is_banned_trio(a, b, c, p) ==
    IF is_banned_pair(a, b, p) \/ is_banned_pair(b, c, p) THEN TRUE
    ELSE IF /\ a.condition = b.condition
            /\ b.condition = c.condition
            /\ is_turn(a.instruction_type)
            /\ is_turn(b.instruction_type)
            /\ is_turn(c.instruction_type)
            /\ a.instruction_type = b.instruction_type
            /\ b.instruction_type = c.instruction_type
         THEN TRUE
    ELSE IF /\ is_paint(a.instruction_type)
            /\ a.condition = None
            /\ (is_turn(b.instruction_type) \/ b.instruction_type = "Noop")
            /\ c.condition # None
            /\ c.condition # paint_color(a.instruction_type)
         THEN TRUE
    ELSE FALSE

\* func.iter().filter_map(|i| i.as_ref()).collect()
RECURSIVE NonEmpty(_)
NonEmpty(func) ==
    IF func = << >> THEN << >>
    ELSE (IF Head(func) # None THEN <<Head(func)[1]>> ELSE << >>) \o NonEmpty(Tail(func))

HasBannedSequence_AdjacentSlots(prog, p) ==
    \E f \in 0..4 :
        LET func == get_function(prog, f) IN
        \/ \E i \in 1..(Len(func) - 1) :
              /\ func[i] # None /\ func[i + 1] # None
              /\ is_banned_pair(func[i][1], func[i + 1][1], p)
        \/ \E i \in 1..(Len(func) - 2) :
              /\ func[i] # None /\ func[i + 1] # None /\ func[i + 2] # None
              /\ is_banned_trio(func[i][1], func[i + 1][1], func[i + 2][1], p)

\* lines 128-152: a banned pair or trio inside one function
HasBannedSequence(prog, p) ==
    \E f \in 0..4 :
        LET instructions == NonEmpty(get_function(prog, f)) IN
        \/ \E i \in 1..(Len(instructions) - 1) :
              is_banned_pair(instructions[i], instructions[i + 1], p)
        \/ \E i \in 1..(Len(instructions) - 2) :
              is_banned_trio(instructions[i], instructions[i + 1], instructions[i + 2], p)

called_functions_WithoutRoot(prog) ==
    {t \in 0..4 : \E f \in 0..4 :
        \E i \in 1..Len(get_function(prog, f)) :
            /\ get_function(prog, f)[i] # None
            /\ function_index(get_function(prog, f)[i][1].instruction_type) = Some(t)}

\* lines 156-166: F1 and every function that is the target of some call
called_functions(prog) ==
    {0} \cup {t \in 0..4 : \E f \in 0..4 :
                \E i \in 1..Len(get_function(prog, f)) :
                    /\ get_function(prog, f)[i] # None
                    /\ function_index(get_function(prog, f)[i][1].instruction_type) = Some(t)}

has_instructions(prog, f) ==
    \E i \in 1..Len(get_function(prog, f)) : get_function(prog, f)[i] # None

\* lines 168-175
HasUnreachableFunction(prog) ==
    \E f \in 0..4 : has_instructions(prog, f) /\ f \notin called_functions(prog)

\* lines 177-189
HasInvalidConditional(prog, p) ==
    \E f \in 0..4 : \E i \in 1..Len(get_function(prog, f)) :
        LET slot == get_function(prog, f)[i] IN
        /\ slot # None
        /\ slot[1].condition # None
        /\ slot[1].condition[1] \notin available_colors(p)

\* lines 191-203
CallsEmptyFunction(prog) ==
    \E f \in 0..4 : \E i \in 1..Len(get_function(prog, f)) :
        LET slot == get_function(prog, f)[i] IN
        /\ slot # None
        /\ function_index(slot[1].instruction_type) # None
        /\ ~has_instructions(prog, function_index(slot[1].instruction_type)[1])

should_reject_program(prog, p) ==
    \/ HasBannedSequence(prog, p)
    \/ HasUnreachableFunction(prog)
    \/ HasInvalidConditional(prog, p)
    \/ CallsEmptyFunction(prog)

\* The orders in which a HashSet of colours can be iterated.
ColorOrders(S) ==
    {o \in [1..Cardinality(S) -> S] : \A i, j \in 1..Cardinality(S) : o[i] = o[j] => i = j}

VariantsOf_EveryColour(inst_type, colors) ==
    <<Inst(inst_type)>> \o [k \in 1..Len(colors) |-> CondInst(inst_type, colors[k])]

\* lines 232-250: the variants of one allowed type, colors being the
\* available colours in the order the HashSet yields them
VariantsOf(inst_type, colors) ==
    <<Inst(inst_type)>> \o
    SelectSeq([k \in 1..Len(colors) |-> CondInst(inst_type, colors[k])],
              LAMBDA v : paint_color(inst_type) # v.condition)

RECURSIVE AllVariants(_, _)
AllVariants(allowed, colors) ==
    IF allowed = << >> THEN << >>
    ELSE VariantsOf(Head(allowed), colors) \o AllVariants(Tail(allowed), colors)

get_valid_instructions_for_slot(prog, func_index, inst_index, p, colors) ==
    LET prev_inst == IF inst_index > 0 THEN get(prog, func_index, inst_index - 1) ELSE None
    IN  SelectSeq(AllVariants(p.allowed_instructions, colors),
                  LAMBDA v : ~(prev_inst # None /\ is_banned_pair(prev_inst[1], v, p)))

(***************************************************************************)
(* solver.rs                                                               *)
(***************************************************************************)
DefaultTimeout == 15000

DefaultMaxSteps == 200

DefaultMaxInstructions == 16

\* MinConstraints::default; step_ratio is held in tenths (30 is 3.0)
DefaultMinConstraints ==
    [instructions |-> 4, steps |-> 16, recursion_depth |-> 3, conditionals |-> 2,
     step_ratio |-> 30]

\* SolverConfig::default, the timeout in clock ticks (milliseconds)
DefaultSolverConfig ==
    [timeout |-> DefaultTimeout,
     max_steps |-> DefaultMaxSteps,
     max_instructions |-> DefaultMaxInstructions,
     min_constraints |-> DefaultMinConstraints]

\* ExecutionMetrics::step_ratio() < r, r in tenths: the quotient of two small
\* integers compared exactly
StepRatioBelow(m, r) ==
    IF m.instructions = 0 THEN 0 < r ELSE m.steps * 10 < r * m.instructions

is_below_minimums_AllBelow(m, min) ==
    /\ m.instructions < min.instructions
    /\ m.steps < min.steps
    /\ m.max_stack_depth < min.recursion_depth
    /\ m.conditionals_executed < min.conditionals
    /\ StepRatioBelow(m, min.step_ratio)

is_below_minimums(m, min) ==
    \/ m.instructions < min.instructions
    \/ m.steps < min.steps
    \/ m.max_stack_depth < min.recursion_depth
    \/ m.conditionals_executed < min.conditionals
    \/ StepRatioBelow(m, min.step_ratio)

\* format!("{:.1}", step_ratio()): the ratio rounded to the nearest tenth,
\* ties to even; the value is given in tenths
FormatRatio(m) ==
    IF m.instructions = 0 THEN 0
    ELSE LET t == (m.steps * 10) \div m.instructions
             r == (m.steps * 10) % m.instructions
         IN  IF 2 * r < m.instructions THEN t
             ELSE IF 2 * r > m.instructions THEN t + 1
             ELSE IF t % 2 = 0 THEN t ELSE t + 1

\* The names of the entries of a reason
ReasonNames(reason) == {reason[k][1] : k \in 1..Len(reason)}

\* One pushed entry "name value < threshold" of the reasons vector
ReasonEntry(name, value, threshold) == <<name, value, threshold>>

format_trivial_reason_NoSteps(m, min) ==
    LET reasons ==
            (IF m.instructions < min.instructions
             THEN <<ReasonEntry("instructions", m.instructions, min.instructions)>>
             ELSE << >>)
         \o (IF m.max_stack_depth < min.recursion_depth
             THEN <<ReasonEntry("recursion_depth", m.max_stack_depth, min.recursion_depth)>>
             ELSE << >>)
         \o (IF m.conditionals_executed < min.conditionals
             THEN <<ReasonEntry("conditionals", m.conditionals_executed, min.conditionals)>>
             ELSE << >>)
         \o (IF StepRatioBelow(m, min.step_ratio)
             THEN <<ReasonEntry("step_ratio", FormatRatio(m), min.step_ratio)>>
             ELSE << >>)
    IN  IF reasons = << >> THEN << <<"unknown">> >> ELSE reasons

format_trivial_reason_RatioFirst(m, min) ==
    LET reasons ==
            (IF StepRatioBelow(m, min.step_ratio)
             THEN <<ReasonEntry("step_ratio", FormatRatio(m), min.step_ratio)>>
             ELSE << >>)
         \o (IF m.instructions < min.instructions
             THEN <<ReasonEntry("instructions", m.instructions, min.instructions)>>
             ELSE << >>)
         \o (IF m.steps < min.steps
             THEN <<ReasonEntry("steps", m.steps, min.steps)>>
             ELSE << >>)
         \o (IF m.max_stack_depth < min.recursion_depth
             THEN <<ReasonEntry("recursion_depth", m.max_stack_depth, min.recursion_depth)>>
             ELSE << >>)
         \o (IF m.conditionals_executed < min.conditionals
             THEN <<ReasonEntry("conditionals", m.conditionals_executed, min.conditionals)>>
             ELSE << >>)
    IN  IF reasons = << >> THEN << <<"unknown">> >> ELSE reasons

\* format_trivial_reason: the entries in push order (joined by ", " in the
\* code), or the single entry "unknown" when the vector is empty
format_trivial_reason(m, min) ==
    LET reasons ==
            (IF m.instructions < min.instructions
             THEN <<ReasonEntry("instructions", m.instructions, min.instructions)>>
             ELSE << >>)
         \o (IF m.steps < min.steps
             THEN <<ReasonEntry("steps", m.steps, min.steps)>>
             ELSE << >>)
         \o (IF m.max_stack_depth < min.recursion_depth
             THEN <<ReasonEntry("recursion_depth", m.max_stack_depth, min.recursion_depth)>>
             ELSE << >>)
         \o (IF m.conditionals_executed < min.conditionals
             THEN <<ReasonEntry("conditionals", m.conditionals_executed, min.conditionals)>>
             ELSE << >>)
         \o (IF StepRatioBelow(m, min.step_ratio)
             THEN <<ReasonEntry("step_ratio", FormatRatio(m), min.step_ratio)>>
             ELSE << >>)
    IN  IF reasons = << >> THEN << <<"unknown">> >> ELSE reasons

SearchFrame(prog, next_slot) == [program |-> prog, next_slot |-> next_slot]

\* SearchFrame::new
SearchFrame_new(p) ==
    SearchFrame(with_lengths(p.function_lengths),
                find_empty_slot(with_lengths(p.function_lengths)))

\* SearchFrame::with_program
with_program(prog) == SearchFrame(prog, find_empty_slot(prog))

NextSlotAfter_FromSameSlot(prog, func_idx, inst_idx) ==
    FirstSlot({s \in SlotsOf(prog) :
        /\ prog[s[1] + 1][s[2] + 1] = None
        /\ ~SlotBefore(s, <<func_idx, inst_idx>>)})

\* lines 169-187: the first empty slot after (func_idx, inst_idx)
NextSlotAfter(prog, func_idx, inst_idx) ==
    FirstSlot({s \in SlotsOf(prog) :
        /\ prog[s[1] + 1][s[2] + 1] = None
        /\ SlotBefore(<<func_idx, inst_idx>>, s)})

\* lines 189-195: the "skip this slot" child
SkipChild(fr) ==
    LET next_next_slot == NextSlotAfter(fr.program, fr.next_slot[1][1], fr.next_slot[1][2])
    IN  IF next_next_slot # None THEN <<SearchFrame(fr.program, next_next_slot)>> ELSE << >>

\* lines 197-207: one child per valid instruction that is not rejected
RECURSIVE FillChildren(_, _, _)
FillChildren(fr, valid_instructions, p) ==
    IF valid_instructions = << >> THEN << >>
    ELSE LET new_program == with_instruction(fr.program, fr.next_slot[1][1],
                                             fr.next_slot[1][2],
                                             Some(Head(valid_instructions)))
         IN  (IF should_reject_program(new_program, p) THEN << >>
              ELSE <<with_program(new_program)>>)
             \o FillChildren(fr, Tail(valid_instructions), p)

\* lines 157-207: the frames pushed for an incomplete frame, in push order
Children(fr, p, colors) ==
    SkipChild(fr) \o
    FillChildren(fr,
                 get_valid_instructions_for_slot(fr.program, fr.next_slot[1][1],
                                                 fr.next_slot[1][2], p, colors),
                 p)

IsTrivialSolution_AnyOutcome(res, min) == is_below_minimums(res.metrics, min)

\* lines 129-131: the early-exit test on an execution result
IsTrivialSolution(res, min) == res.solved /\ is_below_minimums(res.metrics, min)

TimeoutResult_Invalid(tested, elapsed) ==
    [valid |-> FALSE, search_exhausted |-> FALSE, programs_tested |-> tested,
     time_elapsed_ms |-> elapsed, trivial_solution |-> None,
     trivial_metrics |-> None, reason |-> None]

\* lines 106-114
TimeoutResult(tested, elapsed) ==
    [valid |-> TRUE, search_exhausted |-> FALSE, programs_tested |-> tested,
     time_elapsed_ms |-> elapsed, trivial_solution |-> None,
     trivial_metrics |-> None, reason |-> None]

\* lines 133-141
TrivialResult(tested, elapsed, prog, m, min) ==
    [valid |-> FALSE, search_exhausted |-> FALSE, programs_tested |-> tested,
     time_elapsed_ms |-> elapsed, trivial_solution |-> Some(prog),
     trivial_metrics |-> Some(m), reason |-> Some(format_trivial_reason(m, min))]

\* lines 211-219
ExhaustedResult(tested, elapsed) ==
    [valid |-> TRUE, search_exhausted |-> TRUE, programs_tested |-> tested,
     time_elapsed_ms |-> elapsed, trivial_solution |-> None,
     trivial_metrics |-> None, reason |-> None]

(***************************************************************************)
(* Inputs                                                                  *)
(***************************************************************************)
StepBudget == 18

MaxClock == 2

PuzzleConfig(grid, x, y, dir, lengths, allowed) ==
    [grid |-> grid,
     robot_start |-> [position |-> Position(x, y), direction |-> dir],
     function_lengths |-> lengths,
     allowed_instructions |-> allowed]

\* create_simple_puzzle / create_trivial_puzzle: [[Red, Red with star]]
ForwardPuzzle ==
    PuzzleConfig(<< <<Some(Tile(Some("Red"), FALSE)), Some(Tile(Some("Red"), TRUE))>> >>,
                 0, 0, "Right", <<5, 0, 0, 0, 0>>, <<"Forward">>)

\* The same grid with one slot in F1 and one in F2
SplitPuzzle == [ForwardPuzzle EXCEPT !.function_lengths = <<1, 1, 0, 0, 0>>]

\* The same grid, calls allowed
CallPuzzle ==
    [ForwardPuzzle EXCEPT !.function_lengths = <<1, 1, 0, 0, 0>>,
                          !.allowed_instructions = <<"Forward", "F2">>]

\* Two stars, a hole at (0,1), a tile without colour at (1,1)
TwoStarPuzzle ==
    PuzzleConfig(<< <<Some(Tile(Some("Red"), FALSE)), Some(Tile(Some("Green"), TRUE))>>,
                    <<None, Some(Tile(None, TRUE))>> >>,
                 0, 0, "Right", <<2, 0, 0, 0, 0>>, <<"Forward", "Right">>)

\* A star behind the robot: two turns are needed
TurnPuzzle ==
    PuzzleConfig(<< <<Some(Tile(Some("Red"), TRUE)), Some(Tile(Some("Red"), FALSE))>> >>,
                 1, 0, "Right", <<3, 0, 0, 0, 0>>, <<"Forward", "Left">>)

\* A star around a corner: a forward, a right turn and a forward are needed,
\* F1 has one slot and F2 two
CornerPuzzle ==
    PuzzleConfig(<< <<Some(Tile(Some("Red"), FALSE)), Some(Tile(Some("Red"), FALSE))>>,
                    <<None, Some(Tile(Some("Red"), TRUE))>> >>,
                 0, 0, "Right", <<1, 2, 0, 0, 0>>, <<"Forward", "Right", "F2">>)

\* The forward puzzle with no colour on the start tile
ColourlessPuzzle == [ForwardPuzzle EXCEPT !.grid[1][1] = Some(Tile(None, FALSE))]

\* The forward puzzle with a second star under the robot
StarStartPuzzle == [ForwardPuzzle EXCEPT !.grid[1][1] = Some(Tile(Some("Red"), TRUE))]

\* No star at all, robot starts off the grid
EmptyPuzzle ==
    PuzzleConfig(<< <<Some(Tile(Some("Red"), FALSE))>> >>,
                 1, 0, "Left", <<0, 0, 0, 0, 0>>, <<"Forward">>)

\* All programs with the given function lengths whose slots are drawn from S
Programs(lengths, S) ==
    {<<a, b, c, d, e>> : a \in [1..lengths[1] -> S], b \in [1..lengths[2] -> S],
                         c \in [1..lengths[3] -> S], d \in [1..lengths[4] -> S],
                         e \in [1..lengths[5] -> S]}

Slots(types, conds) ==
    {None} \cup {Some(Instruction(t, c)) : t \in types, c \in conds}

ProgramOf(f1) == <<f1, << >>, << >>, << >>, << >>>>

\* The programs of the executor tests and of the scenarios
ScenarioRuns ==
    {<<ForwardPuzzle, ProgramOf(<<Some(Inst("Forward"))>>), 100>>,
     <<ForwardPuzzle, ProgramOf(<<Some(CondInst("Left", "Blue")),
                                 Some(CondInst("Forward", "Red"))>>), 100>>,
     <<ForwardPuzzle, ProgramOf(<<Some(Inst("Right"))>>), 100>>,
     <<ForwardPuzzle, ProgramOf(<<Some(Inst("F1")), Some(Inst("F1"))>>), 300>>,
     <<ForwardPuzzle, ProgramOf(<<Some(Inst("F1")), Some(Inst("F1"))>>), 255>>,
     <<ForwardPuzzle, ProgramOf(<<Some(Inst("Left")), Some(Inst("Forward"))>>), 0>>,
     <<TurnPuzzle, ProgramOf(<<Some(Inst("Left")), Some(Inst("Left")),
                              Some(Inst("Forward"))>>), StepBudget>>,
     <<ForwardPuzzle, ProgramOf(<<Some(CondInst("Right", "Red"))>>), 100>>,
     <<ForwardPuzzle, ProgramOf(<<Some(Inst("Right")), Some(Inst("Noop")),
                                 Some(Inst("Noop"))>>), 100>>,
     <<ColourlessPuzzle, ProgramOf(<<Some(CondInst("Forward", "Red")),
                                     Some(Inst("Right"))>>), StepBudget>>,
     <<ForwardPuzzle, ProgramOf(<<Some(Inst("Left")), Some(Inst("Forward"))>>),
       StepBudget>>,
     <<ForwardPuzzle, ProgramOf(<<Some(Inst("Right")), Some(Inst("Forward"))>>),
       StepBudget>>,
     <<ForwardPuzzle, ProgramOf(<<Some(Inst("Left")), Some(Inst("Left")),
                                 Some(Inst("Forward"))>>), StepBudget>>,
     <<StarStartPuzzle, ProgramOf(<<Some(Inst("PaintGreen")), Some(Inst("Forward"))>>),
       StepBudget>>,
     <<EmptyPuzzle, ProgramOf(<<Some(Inst("PaintRed"))>>), StepBudget>>,
     \* three stars in a row, the robot in the middle going right, back to
     \* the middle and right again
     <<PuzzleConfig(<< <<Some(Tile(Some("Red"), TRUE)), Some(Tile(Some("Red"), TRUE)),
                        Some(Tile(Some("Red"), TRUE))>> >>,
                    1, 0, "Right", <<6, 0, 0, 0, 0>>, <<"Forward", "Left">>),
       ProgramOf(<<Some(Inst("Forward")), Some(Inst("Left")), Some(Inst("Left")),
                   Some(Inst("Forward")), Some(Inst("Left")), Some(Inst("Left"))>>),
       StepBudget>>,
     <<EmptyPuzzle, ProgramOf(<< >>), StepBudget>>,
     <<EmptyPuzzle, ProgramOf(<<Some(Inst("Forward"))>>), StepBudget>>}

GeneralRuns ==
    {<<TwoStarPuzzle, prog, n>> :
        prog \in Programs(<<2, 1, 0, 0, 0>>,
                          Slots({"Forward", "Right", "F1", "F2", "F3", "PaintGreen",
                                 "Noop"},
                                {None, Some("Green")})),
        n \in {1, StepBudget}}

\* F1 = [a, b, c] and F1 = [a, empty, b, c]: a an unconditional paint, b a
\* turn or Noop under any condition, c an instruction under a condition
TrioRuns ==
    {<<TwoStarPuzzle, ProgramOf(f1), StepBudget>> :
        f1 \in {<<Some(Inst(a)), Some(Instruction(b, bc)), Some(CondInst(c, cc))>> :
                    a \in {"PaintRed", "PaintGreen"}, b \in {"Left", "Right", "Noop"},
                    bc \in {None, Some("Red"), Some("Green")},
                    c \in {"Forward", "Right"}, cc \in TileColor}
               \cup
               {<<Some(Inst(a)), None, Some(Inst(b)), Some(CondInst("Forward", cc))>> :
                    a \in {"PaintRed", "PaintGreen"}, b \in {"Right", "Noop"},
                    cc \in TileColor}}

ExecInputs == ScenarioRuns \cup GeneralRuns \cup TrioRuns

ZeroMinConstraints ==
    [instructions |-> 0, steps |-> 0, recursion_depth |-> 0, conditionals |-> 0,
     step_ratio |-> 0]

SearchConfigs ==
    {DefaultSolverConfig} \cup
    {[timeout |-> t, max_steps |-> StepBudget, max_instructions |-> k,
      min_constraints |-> c] :
        t \in {0, 1, DefaultTimeout},
        k \in {2, DefaultMaxInstructions},
        c \in {ZeroMinConstraints, DefaultMinConstraints}}

SearchPuzzles ==
    {SplitPuzzle, CallPuzzle, TwoStarPuzzle, TurnPuzzle, CornerPuzzle, EmptyPuzzle}

\* The forward puzzle is searched under the default configuration, with each
\* timeout; the smaller puzzles under every configuration
SearchInputs ==
    {<<ForwardPuzzle, [DefaultSolverConfig EXCEPT !.timeout = t]>> :
        t \in {0, 1, DefaultTimeout}}
    \cup (SearchPuzzles \X SearchConfigs)

(***************************************************************************)
(* execute as a state machine: two successive calls on the same arguments  *)
(***************************************************************************)
Locals ==
    [state |-> state, metrics |-> metrics, stack |-> stack,
     visited_tiles |-> visited_tiles, seen_states |-> seen_states, result |-> result]

SetLocals(m) ==
    /\ state' = m.state
    /\ metrics' = m.metrics
    /\ stack' = m.stack
    /\ visited_tiles' = m.visited_tiles
    /\ seen_states' = m.seen_states
    /\ result' = m.result

GridOfPuzzleAfter_Shared(p, m) == m.state.tiles

\* GridState::from_puzzle clones the rows: writes to the GridState tiles do
\* not reach the grid the caller's puzzle holds
GridOfPuzzleAfter(p, m) == p.grid

\* No pure function is being called
CallIdle == args = << >> /\ ret = << >>

SearchIdle ==
    /\ config = None
    /\ queue = << >>
    /\ frame = None
    /\ programs_tested = 0
    /\ sparse_tested = 0
    /\ tested_programs = {}
    /\ now = 0
    /\ executed = None
    /\ solver_result = None

Init ==
    /\ \E in \in ExecInputs :
          /\ puzzle = in[1]
          /\ program = in[2]
          /\ max_steps = in[3]
          /\ LET m == ExecuteInit(in[1], in[2]) IN
                /\ state = m.state
                /\ metrics = m.metrics
                /\ stack = m.stack
                /\ visited_tiles = m.visited_tiles
                /\ seen_states = m.seen_states
                /\ result = m.result
    /\ call = 1
    /\ first_result = None
    /\ SearchIdle
    /\ CallIdle

\* One loop iteration (or the final return) of the running call
Iterate ==
    /\ LET m == LoopIteration(program, max_steps, Locals) IN
          /\ SetLocals(m)
          /\ puzzle' = [puzzle EXCEPT !.grid = GridOfPuzzleAfter(puzzle, m)]
    /\ UNCHANGED <<program, max_steps, call, first_result>>
    /\ UNCHANGED search_vars
    /\ UNCHANGED call_vars

Running == result = None /\ stack # << >>

Charged ==
    /\ Running
    /\ ~StepLimitReached(Locals, max_steps)
    /\ ~StackTooDeep(Locals)
    /\ FrameInstruction(Locals, program) # None
    /\ should_execute(FrameInstruction(Locals, program)[1], current_color(state))

\* The state sampled for cycle detection at this charged instruction
SampledHash == create_state_hash(state, PopFrame(Locals).stack)

Dispatched ==
    /\ Charged
    /\ ~(Sampled(Locals) /\ SampledHash \in seen_states)

ChargedType == FrameInstruction(Locals, program)[1].instruction_type

\* lines 334-339: the loop is left with an empty stack
ExecLoopExit == result = None /\ stack = << >> /\ Iterate

\* lines 172-178
ExecStepLimit == Running /\ StepLimitReached(Locals, max_steps) /\ Iterate

\* lines 180-187
ExecStackOverflow ==
    Running /\ ~StepLimitReached(Locals, max_steps) /\ StackTooDeep(Locals) /\ Iterate

\* lines 197-200
ExecSkipEmptySlot ==
    /\ Running
    /\ ~StepLimitReached(Locals, max_steps)
    /\ ~StackTooDeep(Locals)
    /\ FrameInstruction(Locals, program) = None
    /\ Iterate

\* lines 203-206
ExecSkipCondition ==
    /\ Running
    /\ ~StepLimitReached(Locals, max_steps)
    /\ ~StackTooDeep(Locals)
    /\ FrameInstruction(Locals, program) # None
    /\ ~should_execute(FrameInstruction(Locals, program)[1], current_color(state))
    /\ Iterate

\* lines 215-223
ExecCycle == Charged /\ Sampled(Locals) /\ SampledHash \in seen_states /\ Iterate

ExecForward == Dispatched /\ ChargedType = "Forward" /\ Iterate

ExecLeft == Dispatched /\ ChargedType = "Left" /\ Iterate

ExecRight == Dispatched /\ ChargedType = "Right" /\ Iterate

ExecCall == Dispatched /\ is_function_call(ChargedType) /\ Iterate

ExecPaint == Dispatched /\ is_paint(ChargedType) /\ Iterate

ExecNoop == Dispatched /\ ChargedType = "Noop" /\ Iterate

\* The caller calls execute again with the same arguments
SecondCall ==
    /\ result # None
    /\ call = 1
    /\ call' = 2
    /\ first_result' = result
    /\ SetLocals(ExecuteInit(puzzle, program))
    /\ UNCHANGED <<puzzle, program, max_steps>>
    /\ UNCHANGED search_vars
    /\ UNCHANGED call_vars

Next ==
    \/ ExecLoopExit
    \/ ExecStepLimit
    \/ ExecStackOverflow
    \/ ExecSkipEmptySlot
    \/ ExecSkipCondition
    \/ ExecCycle
    \/ ExecForward
    \/ ExecLeft
    \/ ExecRight
    \/ ExecCall
    \/ ExecPaint
    \/ ExecNoop
    \/ SecondCall

Spec == Init /\ [][Next]_vars

(***************************************************************************)
(* find_trivial_solution as a state machine: one action per loop iteration *)
(***************************************************************************)
ExecIdle ==
    /\ program = None
    /\ max_steps = 0
    /\ state = None
    /\ metrics = None
    /\ stack = << >>
    /\ visited_tiles = {}
    /\ seen_states = {}
    /\ result = None
    /\ call = 0
    /\ first_result = None

\* lines 94-101: start_time is tick 0, the queue holds the initial frame
InitSearch ==
    /\ \E in \in SearchInputs : puzzle = in[1] /\ config = in[2]
    /\ queue = <<SearchFrame_new(puzzle)>>
    /\ frame = None
    /\ programs_tested = 0
    /\ sparse_tested = 0
    /\ tested_programs = {}
    /\ now = 0
    /\ executed = None
    /\ solver_result = None
    /\ ExecIdle
    /\ CallIdle

Searching == solver_result = None /\ queue # << >>

Back == queue[Len(queue)]

\* Program::has_empty_slots
has_empty_slots(prog) == find_empty_slot(prog) # None

\* queue.pop_back()
PopBack ==
    /\ frame' = Some(Back)
    /\ queue' = SubSeq(queue, 1, Len(queue) - 1)

PastDeadline_Late(t) == t > config.timeout + 1

\* Instant::now() > deadline, deadline = start_time + config.timeout
PastDeadline(t) == t > config.timeout

\* lines 103-115: the deadline has passed when the frame is popped
SearchTimeout ==
    /\ Searching
    /\ PopBack
    /\ \E t \in now..MaxClock :
          /\ PastDeadline(t)
          /\ now' = t
          /\ \E elapsed \in t..MaxClock :
                solver_result' = Some(TimeoutResult(programs_tested, elapsed))
    /\ UNCHANGED <<puzzle, config, programs_tested, sparse_tested, tested_programs, executed>>
    /\ UNCHANGED exec_vars
    /\ UNCHANGED call_vars

\* lines 117-147 without the early exit: a complete frame is counted, then
\* rejected, or executed and found unsolved or not trivial
TestProgram ==
    /\ Searching
    /\ Back.next_slot = None
    /\ PopBack
    /\ \E t \in now..MaxClock : ~PastDeadline(t) /\ now' = t
    /\ programs_tested' = programs_tested + 1
    /\ sparse_tested' = sparse_tested + (IF has_empty_slots(Back.program) THEN 1 ELSE 0)
    /\ tested_programs' = tested_programs \cup {Back.program}
    /\ IF should_reject_program(Back.program, puzzle)
       THEN executed' = executed
       ELSE /\ executed' = Some(Back.program)
            /\ ~IsTrivialSolution(execute(puzzle, Back.program, config.max_steps),
                                  config.min_constraints)
    /\ UNCHANGED <<puzzle, config, solver_result>>
    /\ UNCHANGED exec_vars
    /\ UNCHANGED call_vars

\* lines 117-142: the early exit
FoundTrivial ==
    /\ Searching
    /\ Back.next_slot = None
    /\ PopBack
    /\ programs_tested' = programs_tested + 1
    /\ sparse_tested' = sparse_tested + (IF has_empty_slots(Back.program) THEN 1 ELSE 0)
    /\ tested_programs' = tested_programs \cup {Back.program}
    /\ ~should_reject_program(Back.program, puzzle)
    /\ executed' = Some(Back.program)
    /\ LET res == execute(puzzle, Back.program, config.max_steps) IN
          /\ IsTrivialSolution(res, config.min_constraints)
          /\ \E t \in now..MaxClock :
                /\ ~PastDeadline(t)
                /\ now' = t
                /\ \E elapsed \in t..MaxClock :
                      solver_result' =
                            Some(TrivialResult(programs_tested + 1, elapsed, Back.program,
                                               res.metrics, config.min_constraints))
    /\ UNCHANGED <<puzzle, config>>
    /\ UNCHANGED exec_vars
    /\ UNCHANGED call_vars

DropFrame_Counted ==
    /\ Searching
    /\ Back.next_slot # None
    /\ count_instructions(Back.program) >= config.max_instructions
    /\ PopBack
    /\ \E t \in now..MaxClock : ~PastDeadline(t) /\ now' = t
    /\ programs_tested' = programs_tested + 1
    /\ UNCHANGED <<puzzle, config, sparse_tested, tested_programs, executed, solver_result>>
    /\ UNCHANGED exec_vars
    /\ UNCHANGED call_vars

\* lines 150-155: the frame cannot grow further
DropFrame ==
    /\ Searching
    /\ Back.next_slot # None
    /\ count_instructions(Back.program) >= config.max_instructions
    /\ PopBack
    /\ \E t \in now..MaxClock : ~PastDeadline(t) /\ now' = t
    /\ UNCHANGED <<puzzle, config, programs_tested, sparse_tested, tested_programs, executed,
                   solver_result>>
    /\ UNCHANGED exec_vars
    /\ UNCHANGED call_vars

\* lines 157-207: the frame is expanded
Expand ==
    /\ Searching
    /\ Back.next_slot # None
    /\ count_instructions(Back.program) < config.max_instructions
    /\ frame' = Some(Back)
    /\ \E colors \in ColorOrders(available_colors(puzzle)) :
          queue' = SubSeq(queue, 1, Len(queue) - 1) \o Children(Back, puzzle, colors)
    /\ \E t \in now..MaxClock : ~PastDeadline(t) /\ now' = t
    /\ UNCHANGED <<puzzle, config, programs_tested, sparse_tested, tested_programs, executed,
                   solver_result>>
    /\ UNCHANGED exec_vars
    /\ UNCHANGED call_vars

\* lines 210-219: the worklist is empty
SearchExhausted ==
    /\ solver_result = None
    /\ queue = << >>
    /\ \E elapsed \in now..MaxClock :
          solver_result' = Some(ExhaustedResult(programs_tested, elapsed))
    /\ UNCHANGED <<puzzle, config, queue, frame, programs_tested, sparse_tested, tested_programs, now,
                   executed>>
    /\ UNCHANGED exec_vars
    /\ UNCHANGED call_vars

NextSearch ==
    \/ SearchTimeout
    \/ TestProgram
    \/ FoundTrivial
    \/ DropFrame
    \/ Expand
    \/ SearchExhausted

SpecSearch == InitSearch /\ [][NextSearch]_vars

(***************************************************************************)
(* Properties of find_trivial_solution                                     *)
(***************************************************************************)
Returned == solver_result # None

SolverResult == solver_result[1]

\* The instruction variants the search may place: an allowed type,
\* unconditional or conditioned on a colour of the grid
AdmissibleSlots(p) ==
    {None} \cup
    {Some(Instruction(p.allowed_instructions[k], c)) :
        k \in 1..Len(p.allowed_instructions),
        c \in {None} \cup {Some(col) : col \in available_colors(p)}}

\* The programs over the slot budgets that the search is meant to cover
CandidatePrograms(p, c) ==
    {prog \in Programs(p.function_lengths, AdmissibleSlots(p)) :
        /\ count_instructions(prog) <= c.max_instructions
        /\ ~should_reject_program(prog, p)}

IsTrivialProgram(p, c, prog) ==
    /\ execute(p, prog, c.max_steps).solved
    /\ is_below_minimums(execute(p, prog, c.max_steps).metrics, c.min_constraints)

\* C1: a result valid = true, search_exhausted = true means that no
\* admissible program over the slot budgets (slots may stay empty), with at
\* most max_instructions instructions and not rejected by the pruner, solves
\* the puzzle within max_steps with metrics below the minimums.
C1_ExhaustedMeansNoTrivialProgram ==
    (Returned /\ SolverResult.valid /\ SolverResult.search_exhausted)
        => \A prog \in CandidatePrograms(puzzle, config) :
               ~IsTrivialProgram(puzzle, config, prog)

\* C2: a result valid = false carries a program the pruner accepts, that
\* execute reports as Solved, with its metrics, which are below the minimums;
\* and no program the pruner rejects is ever passed to execute.
C2_TrivialResultIsSound ==
    /\ (Returned /\ ~SolverResult.valid) =>
          /\ SolverResult.trivial_solution # None
          /\ LET prog == SolverResult.trivial_solution[1]
                 res == execute(puzzle, prog, config.max_steps)
             IN  /\ ~should_reject_program(prog, puzzle)
                 /\ res.status = "Solved"
                 /\ SolverResult.trivial_metrics = Some(res.metrics)
                 /\ is_below_minimums(res.metrics, config.min_constraints)
    /\ (executed # None => ~should_reject_program(executed[1], puzzle))

C2_Witness ==
    /\ Returned
    /\ ~SolverResult.valid
    /\ executed = SolverResult.trivial_solution
    /\ programs_tested > 1

ForwardSearch == puzzle = ForwardPuzzle /\ config = DefaultSolverConfig

\* C3 as stated: on the forward puzzle under the default configuration the
\* search returns valid = false with a trivial program, and the reason lists
\* an instructions shortfall and a steps shortfall.
C3_ReasonListsInstructionsAndSteps ==
    (ForwardSearch /\ Returned) =>
        /\ ~SolverResult.valid
        /\ SolverResult.trivial_solution # None
        /\ SolverResult.reason # None
        /\ {"instructions", "steps"} \subseteq ReasonNames(SolverResult.reason[1])

\* C3 amended: on the forward puzzle under the default configuration the
\* search returns valid = false with a trivial program that fills all five
\* slots of F1, and the reason lists a steps shortfall and no instructions
\* shortfall.
C3_ReasonListsStepsOnly ==
    (ForwardSearch /\ Returned) =>
        /\ ~SolverResult.valid
        /\ SolverResult.trivial_solution # None
        /\ count_instructions(SolverResult.trivial_solution[1]) = 5
        /\ SolverResult.reason # None
        /\ "steps" \in ReasonNames(SolverResult.reason[1])
        /\ "instructions" \notin ReasonNames(SolverResult.reason[1])

C3_Witness ==
    /\ ForwardSearch
    /\ Returned
    /\ SolverResult.trivial_metrics # None
    /\ SolverResult.trivial_metrics[1].steps = 1

\* C4: a returned result is (valid, search_exhausted) = (true, false) when the
\* deadline passed, (true, true) when the worklist drained, (false, false)
\* when a trivial solution was found; trivial_solution, trivial_metrics and
\* reason are present exactly in the last case.
C4_ResultShape ==
    [][(solver_result = None /\ solver_result' # None) =>
          LET r == solver_result'[1]
              found == ~r.valid /\ ~r.search_exhausted
          IN  /\ queue = << >> => (r.valid /\ r.search_exhausted)
              /\ (queue # << >> /\ now' > config.timeout) =>
                    (r.valid /\ ~r.search_exhausted)
              /\ (queue # << >> /\ now' <= config.timeout) => found
              /\ (r.trivial_solution # None) <=> found
              /\ (r.trivial_metrics # None) <=> found
              /\ (r.reason # None) <=> found]_vars

C4_Witness ==
    /\ Returned
    /\ SolverResult.valid
    /\ ~SolverResult.search_exhausted
    /\ SolverResult.trivial_solution = None
    /\ programs_tested > 0

\* C5: when the clock read at the top of an iteration is past the deadline,
\* the search returns valid = true, search_exhausted = false without a
\* trivial solution, and the popped frame is neither counted, executed nor
\* expanded.
C5_DeadlineCheckedFirst ==
    [][(Searching /\ now' > config.timeout) =>
          /\ solver_result' # None
          /\ solver_result' = Some(TimeoutResult(programs_tested,
                                                 solver_result'[1].time_elapsed_ms))
          /\ frame' = Some(Back)
          /\ queue' = SubSeq(queue, 1, Len(queue) - 1)
          /\ programs_tested' = programs_tested
          /\ executed' = executed]_vars

\* The deadline passed at the pop of a complete frame that holds a trivial solution.
C5_Witness ==
    /\ Returned
    /\ SolverResult.valid
    /\ ~SolverResult.search_exhausted
    /\ frame # None
    /\ frame[1].next_slot = None
    /\ ~should_reject_program(frame[1].program, puzzle)
    /\ IsTrivialProgram(puzzle, config, frame[1].program)

FilledOrLater(parent, child) ==
    \/ count_instructions(child.program) > count_instructions(parent.program)
    \/ /\ child.program = parent.program
       /\ child.next_slot # None
       /\ SlotBefore(parent.next_slot[1], child.next_slot[1])

\* C6: the search terminates because its worklist is a finite tree: every
\* child frame pushed has more filled slots than its parent, or the same
\* program and a next_slot later in function/slot order; and the frames of
\* the worklist stay within the slot budgets, so that order is bounded.
C6_ChildrenIncreaseMeasure ==
    /\ [][queue # << >> =>
             \A k \in Len(queue)..Len(queue') : FilledOrLater(Back, queue'[k])]_vars
    /\ [](\A k \in 1..Len(queue) :
             /\ SlotsOf(queue[k].program) = SlotsOf(with_lengths(puzzle.function_lengths))
             /\ queue[k].next_slot # None =>
                    /\ queue[k].next_slot[1] \in SlotsOf(queue[k].program)
                    /\ get(queue[k].program, queue[k].next_slot[1][1],
                           queue[k].next_slot[1][2]) = None)

C6_Witness ==
    /\ Returned
    /\ SolverResult.search_exhausted
    /\ config.timeout >= MaxClock
    /\ programs_tested > 1

(***************************************************************************)
(* Properties of execute                                                   *)
(***************************************************************************)
ExecutionStatus == {"Solved", "Fell", "Timeout", "Cycle", "StackOverflow"}

ExecReturned == result # None

ExecutionResult == result[1]

\* C7: execute terminates: an iteration that does not return either charges
\* one step within the budget, or charges nothing and leaves the stack
\* shorter, so (max_steps - steps, stack length) decreases; a call that
\* returned has one of the five statuses.
C7_ExecuteTerminates ==
    /\ [][result = None =>
             \/ result' # None
             \/ /\ metrics'.steps = metrics.steps + 1
                /\ metrics'.steps <= max_steps
             \/ /\ metrics'.steps = metrics.steps
                /\ Len(stack') < Len(stack)]_vars
    /\ [](ExecReturned => ExecutionResult.status \in ExecutionStatus)

\* A call that ended after frames were popped without being charged.
C7_Witness ==
    /\ call = 2
    /\ ExecReturned
    /\ ExecutionResult.metrics.steps < max_steps
    /\ ExecutionResult.metrics.max_stack_depth > 0
    /\ ExecutionResult.status = "Timeout"

\* C8: in a returned result, solved holds exactly when the status is Solved.
C8_SolvedIffStatusSolved ==
    ExecReturned => (ExecutionResult.solved <=> ExecutionResult.status = "Solved")

C8_Witness == ExecReturned /\ ExecutionResult.status = "Solved" /\ ExecutionResult.solved

\* C9: in a returned result, steps <= max_steps, max_stack_depth <= 256,
\* stars_collected <= total_stars and tiles_visited >= 1.
C9_MetricsBounds ==
    ExecReturned =>
        /\ ExecutionResult.metrics.steps <= max_steps
        /\ ExecutionResult.metrics.max_stack_depth <= MAX_STACK_DEPTH
        /\ ExecutionResult.metrics.stars_collected <= ExecutionResult.metrics.total_stars
        /\ ExecutionResult.metrics.tiles_visited >= 1

C9_Witness ==
    /\ ExecReturned
    /\ max_steps > 0
    /\ ExecutionResult.metrics.steps = max_steps
    /\ ExecutionResult.metrics.stars_collected > 0

C11_TimeoutOnlyAtStepBudget ==
    (ExecReturned /\ ExecutionResult.status = "Timeout") =>
        \/ ExecutionResult.metrics.steps >= max_steps
        \/ Len(program[1]) = 0 /\ ExecutionResult.metrics.steps = 0

\* The tile one step ahead of the robot
TileAhead ==
    get_tile(state.tiles, state.position.x + delta(state.direction)[1],
                          state.position.y + delta(state.direction)[2])

\* The iteration dispatches a Forward onto the tile of the last remaining star
LandsOnLastStar ==
    /\ Dispatched
    /\ ChargedType = "Forward"
    /\ TileAhead # None
    /\ TileAhead[1].has_star
    /\ state.stars_remaining = 1

\* C12: an iteration returns Solved exactly when it is a charged Forward onto
\* a tile with a star that is the last one remaining; it returns in that
\* iteration with the step counted and nothing re-pushed.  On Solved
\* stars_collected = total_stars >= 1.  On [[Red, Red with star]] with
\* F1 = [Forward]: Solved, steps 1, stars_collected 1, tiles_visited 2.
C12_SolvedOnLastStar ==
    /\ [][result = None =>
             /\ (result' # None /\ result'[1].status = "Solved") <=> LandsOnLastStar
             /\ LandsOnLastStar =>
                   /\ result'[1].metrics.steps = metrics.steps + 1
                   /\ result'[1].metrics = metrics'
                   /\ state'.stars_remaining = 0
                   /\ stack' = PopFrame(Locals).stack]_vars
    /\ [](ExecReturned /\ ExecutionResult.status = "Solved" =>
             /\ ExecutionResult.metrics.stars_collected = ExecutionResult.metrics.total_stars
             /\ ExecutionResult.metrics.total_stars >= 1)
    /\ [](ExecReturned /\ puzzle = ForwardPuzzle
                       /\ program = ProgramOf(<<Some(Inst("Forward"))>>) =>
             /\ ExecutionResult.status = "Solved"
             /\ ExecutionResult.metrics.steps = 1
             /\ ExecutionResult.metrics.stars_collected = 1
             /\ ExecutionResult.metrics.tiles_visited = 2)

\* Solved after two stars were collected, the first without ending the run
C12_Witness ==
    /\ ExecReturned
    /\ ExecutionResult.status = "Solved"
    /\ ExecutionResult.metrics.stars_collected = 2
    /\ ExecutionResult.metrics.steps > 2

\* The iteration pops a frame that holds an instruction
PopsInstruction ==
    /\ Running
    /\ ~StepLimitReached(Locals, max_steps)
    /\ ~StackTooDeep(Locals)
    /\ FrameInstruction(Locals, program) # None

PoppedCondition == FrameInstruction(Locals, program)[1].condition

\* The condition of the popped instruction is absent or is the colour of the
\* robot's tile
ConditionHolds ==
    \/ PoppedCondition = None
    \/ current_color(state) # None /\ current_color(state) = PoppedCondition

SkippedUnchanged ==
    /\ metrics'.steps = metrics.steps
    /\ metrics'.conditionals_executed = metrics.conditionals_executed
    /\ state' = state
    /\ visited_tiles' = visited_tiles
    /\ stack' = SubSeq(stack, 1, Len(stack) - 1)

ConditionTable ==
    \A t \in InstructionType, c \in TileColor, tc \in {None} \cup {Some(x) : x \in TileColor} :
        /\ should_execute(Inst(t), tc)
        /\ should_execute(CondInst(t, c), tc) <=> (tc = Some(c))

\* C13 as stated: a popped instruction passes the gate iff its condition is
\* absent or equals the colour of the robot's tile; one that does not pass
\* changes nothing but the stack; a conditional one that passes increments
\* conditionals_executed and is charged one step.
C13_MatchedConditionalIsCharged ==
    /\ [](ConditionTable)
    /\ [][PopsInstruction =>
             /\ ~ConditionHolds <=> (metrics'.steps = metrics.steps /\ result' = None)
             /\ ~ConditionHolds => SkippedUnchanged
             /\ (ConditionHolds /\ PoppedCondition # None) =>
                   /\ metrics'.conditionals_executed = metrics.conditionals_executed + 1
                   /\ metrics'.steps = metrics.steps + 1]_vars

\* C13 amended: as above, except that a conditional instruction that passes
\* the gate is either charged one step, or the run halts with Cycle at that
\* instruction with the conditional counted and no step charged.
C13_MatchedConditionalIsCounted ==
    /\ [](ConditionTable)
    /\ [][PopsInstruction =>
             /\ ~ConditionHolds <=> (metrics'.steps = metrics.steps /\ result' = None)
             /\ ~ConditionHolds => SkippedUnchanged
             /\ (ConditionHolds /\ PoppedCondition # None) =>
                   /\ metrics'.conditionals_executed = metrics.conditionals_executed + 1
                   /\ \/ metrics'.steps = metrics.steps + 1
                      \/ /\ metrics'.steps = metrics.steps
                         /\ result' # None
                         /\ result'[1].status = "Cycle"]_vars

\* A run halted by Cycle at a conditional instruction that was counted
C13_Witness ==
    /\ ExecReturned
    /\ ExecutionResult.status = "Cycle"
    /\ ExecutionResult.metrics.steps > 0
    /\ ExecutionResult.metrics.conditionals_executed = ExecutionResult.metrics.steps + 1

\* test_timeout_or_cycle: F1 = [Right] on the forward puzzle, max_steps = 100
RightForever ==
    /\ puzzle = ForwardPuzzle
    /\ program = ProgramOf(<<Some(Inst("Right"))>>)
    /\ max_steps = 100

\* C14: on [[Red, Red with star]] with F1 = [Right] and max_steps = 100 the
\* run never charges more than 16 steps, and it returns solved = false with
\* status Cycle.
C14_CycleFiresByStep16 ==
    RightForever =>
        /\ metrics.steps <= 16
        /\ ExecReturned =>
              /\ ~ExecutionResult.solved
              /\ ExecutionResult.status = "Cycle"
              /\ ExecutionResult.metrics.steps <= 16

C14_Witness ==
    /\ RightForever
    /\ ExecReturned
    /\ ExecutionResult.status = "Cycle"
    /\ ExecutionResult.metrics.steps = 16
    /\ state.direction = "Right"

(***************************************************************************)
(* Calls of the pure functions of pruning.rs, puzzle.rs and solver.rs      *)
(***************************************************************************)
\* Neither execute nor the search is running
PureIdle == puzzle = None /\ ExecIdle /\ SearchIdle

\* pruning.rs tests: create_test_puzzle
TestPuzzle ==
    PuzzleConfig(<< <<Some(Tile(Some("Red"), FALSE))>> >>, 0, 0, "Right",
                 <<5, 5, 0, 0, 0>>, <<"Forward", "Left", "Right", "F1", "F2">>)

\* test_reject_unreachable_function: F1 = [Forward], F2 = [Left]
UnreachableExample ==
    <<<<Some(Inst("Forward"))>>, <<Some(Inst("Left"))>>, << >>, << >>, << >>>>

\* test_accept_valid_program: F1 = [Forward, F2], F2 = [Left]
ValidExample ==
    <<<<Some(Inst("Forward")), Some(Inst("F2"))>>, <<Some(Inst("Left"))>>,
      << >>, << >>, << >>>>

\* Programs over three functions with calls between them
RejectPrograms ==
    {UnreachableExample, ValidExample} \cup
    Programs(<<2, 2, 1, 0, 0>>, Slots({"Forward", "Left", "F2", "F3"}, {None}))

\* The test puzzle with PaintBlue allowed and no blue tile
PaintTestPuzzle ==
    [TestPuzzle EXCEPT !.allowed_instructions = <<"Forward", "PaintBlue", "F2", "F4">>]

\* A red and a blue tile
BlueTestPuzzle ==
    [TestPuzzle EXCEPT !.grid = << <<Some(Tile(Some("Red"), FALSE)),
                                    Some(Tile(Some("Blue"), FALSE))>> >>]

\* Programs, partial ones included, with conditions on a colour of the grid
\* and on another colour, and with calls of F2 (one slot) and F4 (no slot)
ConditionalPrograms ==
    Programs(<<2, 1, 0, 0, 0>>,
             Slots({"Forward", "F2", "F4"}, {None, Some("Red"), Some("Blue")}))

\* Programs, partial ones included, of turns and calls of F2, long enough
\* for three instructions around an empty slot
SequencePrograms ==
    Programs(<<4, 1, 0, 0, 0>>, Slots({"Left", "Right", "F2"}, {None}))

InitReject ==
    /\ \/ \E prog \in RejectPrograms \cup SequencePrograms : args = <<prog, TestPuzzle>>
       \/ \E prog \in ConditionalPrograms, p \in {PaintTestPuzzle, BlueTestPuzzle} :
             args = <<prog, p>>
    /\ ret = << >>
    /\ PureIdle

\* should_reject_program(&program, &puzzle)
CallReject ==
    /\ ret = << >>
    /\ ret' = <<should_reject_program(args[1], args[2])>>
    /\ UNCHANGED <<puzzle, args>>
    /\ UNCHANGED exec_vars
    /\ UNCHANGED search_vars

SpecReject == InitReject /\ [][CallReject]_vars

\* A ground of rejection other than an unreachable function
OtherGround(prog, p) ==
    \/ HasBannedSequence(prog, p)
    \/ HasInvalidConditional(prog, p)
    \/ CallsEmptyFunction(prog)

FunctionNames == <<"F1", "F2", "F3", "F4", "F5">>

\* Function f of the program holds a call of function t
Calls(prog, f, t) ==
    \E i \in 1..Len(prog[f + 1]) :
        prog[f + 1][i] # None /\ prog[f + 1][i][1].instruction_type = FunctionNames[t + 1]

\* C15 as stated: the program is rejected when some non-empty function is
\* not reachable from F1 through calls, transitively; and it is not rejected
\* when every non-empty function is reachable from F1 and no other ground
\* applies.  F1 = [Forward], F2 = [Left] is rejected; F1 = [Forward, F2],
\* F2 = [Left] is accepted.
C15_RejectsUnreachableFromF1 ==
    ret # << >> =>
        LET prog == args[1]
            RECURSIVE ReachableFrom(_)
            ReachableFrom(R) ==
                LET N == R \cup {t \in 0..4 : \E f \in R : Calls(prog, f, t)}
                IN  IF N = R THEN R ELSE ReachableFrom(N)
            unreachable ==
                \E f \in 0..4 : has_instructions(prog, f) /\ f \notin ReachableFrom({0})
        IN  /\ unreachable => ret[1]
            /\ (~unreachable /\ ~OtherGround(prog, args[2])) => ~ret[1]
            /\ prog = UnreachableExample => ret[1]
            /\ prog = ValidExample => ~ret[1]

\* C15 amended: the program is rejected when some non-empty function other
\* than F1 is the target of no call instruction anywhere in the program; a
\* function called only by itself or only from a function that F1 never
\* reaches counts as called, and is no ground of rejection.
C15_RejectsNeverCalled ==
    ret # << >> =>
        LET prog == args[1]
            never_called ==
                \E t \in 1..4 :
                    /\ has_instructions(prog, t)
                    /\ \A f \in 0..4 : ~Calls(prog, f, t)
        IN  /\ never_called => ret[1]
            /\ (~never_called /\ ~OtherGround(prog, args[2])) => ~ret[1]
            /\ prog = UnreachableExample => ret[1]
            /\ prog = ValidExample => ~ret[1]

\* Accepted although F2 is non-empty and F1 holds no call: F2 calls itself
C15_Witness ==
    /\ ret = <<FALSE>>
    /\ args[1][1] = <<Some(Inst("Forward")), None>>
    /\ has_instructions(args[1], 1)
    /\ Calls(args[1], 1, 1)

\* Every instruction: 12 types, unconditional or conditioned on one of 3 colours
AllInstructions ==
    {Instruction(t, c) : t \in InstructionType,
                         c \in {None} \cup {Some(col) : col \in TileColor}}

InitPair ==
    /\ \E a \in AllInstructions, b \in AllInstructions : args = <<a, b, TestPuzzle>>
    /\ ret = << >>
    /\ PureIdle

\* is_banned_pair(&a, &b, &puzzle)
CallPair ==
    /\ ret = << >>
    /\ ret' = <<is_banned_pair(args[1], args[2], args[3])>>
    /\ UNCHANGED <<puzzle, args>>
    /\ UNCHANGED exec_vars
    /\ UNCHANGED search_vars

SpecPair == InitPair /\ [][CallPair]_vars

\* C16: is_banned_pair(a, b) is true exactly when neither is Noop and: both
\* have the same condition and are Left and Right in either order; or both
\* have the same condition and are paints; or a is an unconditional paint of
\* colour X and b a paint with condition X; or a is a paint of colour X and b
\* the same paint type with condition X.
C16_BannedPairTable ==
    ret # << >> =>
        LET a == args[1]
            b == args[2]
            Paints == {"PaintRed", "PaintGreen", "PaintBlue"}
            ColourOf(t) == CASE t = "PaintRed" -> "Red"
                             [] t = "PaintGreen" -> "Green"
                             [] t = "PaintBlue" -> "Blue"
        IN  ret[1] <=>
              /\ a.instruction_type # "Noop"
              /\ b.instruction_type # "Noop"
              /\ \/ /\ a.condition = b.condition
                    /\ {a.instruction_type, b.instruction_type} = {"Left", "Right"}
                 \/ /\ a.condition = b.condition
                    /\ a.instruction_type \in Paints
                    /\ b.instruction_type \in Paints
                 \/ /\ a.condition = None
                    /\ a.instruction_type \in Paints
                    /\ b.instruction_type \in Paints
                    /\ b.condition = Some(ColourOf(a.instruction_type))
                 \/ /\ a.instruction_type \in Paints
                    /\ b.instruction_type = a.instruction_type
                    /\ b.condition = Some(ColourOf(a.instruction_type))

\* Banned by the last rule only: Blue:PaintRed then Red:PaintRed
C16_Witness ==
    /\ ret = <<TRUE>>
    /\ args[1] = CondInst("PaintRed", "Blue")
    /\ args[2] = CondInst("PaintRed", "Red")

InitTrio ==
    /\ \E a \in AllInstructions, b \in AllInstructions, c \in AllInstructions :
          args = <<a, b, c, TestPuzzle>>
    /\ ret = << >>
    /\ PureIdle

\* is_banned_trio(&a, &b, &c, &puzzle)
CallTrio ==
    /\ ret = << >>
    /\ ret' = <<is_banned_trio(args[1], args[2], args[3], args[4])>>
    /\ UNCHANGED <<puzzle, args>>
    /\ UNCHANGED exec_vars
    /\ UNCHANGED search_vars

SpecTrio == InitTrio /\ [][CallTrio]_vars

\* C17: is_banned_trio(a, b, c) is true exactly when (a, b) or (b, c) is a
\* banned pair, or the three are turns of the same direction with the same
\* condition, or a is an unconditional paint of colour X, b a turn or Noop,
\* and c has a condition colour different from X.
C17_BannedTrioTable ==
    ret # << >> =>
        LET a == args[1]
            b == args[2]
            c == args[3]
            Turns == {"Left", "Right"}
            Paints == {"PaintRed", "PaintGreen", "PaintBlue"}
            ColourOf(t) == CASE t = "PaintRed" -> "Red"
                             [] t = "PaintGreen" -> "Green"
                             [] t = "PaintBlue" -> "Blue"
        IN  ret[1] <=>
              \/ is_banned_pair(a, b, args[4])
              \/ is_banned_pair(b, c, args[4])
              \/ /\ a.instruction_type \in Turns
                 /\ b.instruction_type = a.instruction_type
                 /\ c.instruction_type = a.instruction_type
                 /\ a.condition = b.condition
                 /\ b.condition = c.condition
              \/ /\ a.instruction_type \in Paints
                 /\ a.condition = None
                 /\ b.instruction_type \in Turns \cup {"Noop"}
                 /\ c.condition # None
                 /\ c.condition[1] # ColourOf(a.instruction_type)

\* Banned by the paint rule only: PaintRed, Noop, Green:Forward
C17_Witness ==
    /\ ret = <<TRUE>>
    /\ args[1] = Inst("PaintRed")
    /\ args[2] = Inst("Noop")
    /\ args[3] = CondInst("Forward", "Green")

\* The number of successive turns applied to a direction
MaxTurns == 4

\* The direction after the first k turns
Facing(k) == IF k = 0 THEN args[1] ELSE ret[k][2]

InitTurn ==
    /\ \E d \in Direction : args = <<d>>
    /\ ret = << >>
    /\ PureIdle

\* d.turn_left() on the direction reached so far
CallTurnLeft ==
    /\ Len(ret) < MaxTurns
    /\ ret' = Append(ret, <<"turn_left", turn_left(Facing(Len(ret)))>>)
    /\ UNCHANGED <<puzzle, args>>
    /\ UNCHANGED exec_vars
    /\ UNCHANGED search_vars

\* d.turn_right() on the direction reached so far
CallTurnRight ==
    /\ Len(ret) < MaxTurns
    /\ ret' = Append(ret, <<"turn_right", turn_right(Facing(Len(ret)))>>)
    /\ UNCHANGED <<puzzle, args>>
    /\ UNCHANGED exec_vars
    /\ UNCHANGED search_vars

NextTurn == CallTurnLeft \/ CallTurnRight

SpecTurn == InitTurn /\ [][NextTurn]_vars

\* The calls i+1 .. i+n were all of function f
AllCalls(i, n, f) == \A k \in (i + 1)..(i + n) : ret[k][1] = f

\* C18: four turn_left in a row return the direction they started from; a
\* turn_right followed by a turn_left, or a turn_left followed by a
\* turn_right, returns the starting direction; three turns in one direction
\* equal one turn in the other.
C18_TurnGroup ==
    \A i \in 0..Len(ret) :
        /\ (i + 4 <= Len(ret) /\ AllCalls(i, 4, "turn_left")) => Facing(i + 4) = Facing(i)
        /\ (i + 2 <= Len(ret) /\ ret[i + 1][1] # ret[i + 2][1]) => Facing(i + 2) = Facing(i)
        /\ (i + 3 <= Len(ret) /\ AllCalls(i, 3, "turn_left")) =>
               Facing(i + 3) = turn_right(Facing(i))
        /\ (i + 3 <= Len(ret) /\ AllCalls(i, 3, "turn_right")) =>
               Facing(i + 3) = turn_left(Facing(i))

\* Four left turns from Up, through Left, Down and Right
C18_Witness ==
    /\ args = <<"Up">>
    /\ Len(ret) = 4
    /\ AllCalls(0, 4, "turn_left")
    /\ <<Facing(1), Facing(2), Facing(3), Facing(4)>> = <<"Left", "Down", "Right", "Up">>

\* Metrics around the default thresholds; test_is_below_minimums has
\* steps 10, instructions 3, max_stack_depth 2, conditionals_executed 1
MinimumsMetrics ==
    [instructions : {0, 3, 4, 6}, steps : {0, 10, 16, 18},
     max_stack_depth : {2, 3}, conditionals_executed : {1, 2}]

\* The default thresholds, no thresholds, and a ratio threshold of 3.5 alone
MinimumsConstraints ==
    {DefaultMinConstraints, ZeroMinConstraints,
     [ZeroMinConstraints EXCEPT !.step_ratio = 35]}

InitMinimums ==
    /\ \E m \in MinimumsMetrics, c \in MinimumsConstraints : args = <<m, c>>
    /\ ret = << >>
    /\ PureIdle

\* is_below_minimums(&metrics, &min)
CallMinimums ==
    /\ ret = << >>
    /\ ret' = <<is_below_minimums(args[1], args[2])>>
    /\ UNCHANGED <<puzzle, args>>
    /\ UNCHANGED exec_vars
    /\ UNCHANGED search_vars

SpecMinimums == InitMinimums /\ [][CallMinimums]_vars

\* C19: is_below_minimums(m, c) is true iff instructions, steps,
\* max_stack_depth or conditionals_executed is below its threshold, or
\* steps / instructions (0 when there are no instructions) is below the
\* ratio threshold; the thresholds of the ratio are in tenths.
C19_BelowAnyThreshold ==
    ret # << >> =>
        LET m == args[1]
            c == args[2]
            ratio_tenths == IF m.instructions = 0 THEN 0
                            ELSE (10 * m.steps) \div m.instructions
        IN  ret[1] <=>
              \/ m.instructions < c.instructions
              \/ m.steps < c.steps
              \/ m.max_stack_depth < c.recursion_depth
              \/ m.conditionals_executed < c.conditionals
              \/ ratio_tenths < c.step_ratio

\* Trivial by the step ratio alone: 16 steps for 6 instructions
C19_Witness ==
    /\ ret = <<TRUE>>
    /\ args[2] = DefaultMinConstraints
    /\ args[1] = [instructions |-> 6, steps |-> 16, max_stack_depth |-> 3,
                  conditionals_executed |-> 2]

(***************************************************************************)
(* main.rs: the verify command                                             *)
(***************************************************************************)
\* std::process::exit codes of the verify command
ExitValid == 0

ExitTrivial == 1

ExitParseError == 1

\* The JSON document read and the SolverConfig built from the flags: the
\* document either does not deserialize (None) or deserializes to a puzzle
VerifyInputs ==
    {<<None, c>> : c \in SearchConfigs} \cup
    {<<Some(in[1]), in[2]>> : in \in SearchInputs}

\* After json_content is read (main.rs:129-143)
InitVerify ==
    /\ args \in VerifyInputs
    /\ ret = << >>
    /\ puzzle = None
    /\ ExecIdle
    /\ SearchIdle

\* main.rs:146-152: serde_json::from_str fails
VerifyParseError ==
    /\ puzzle = None
    /\ ret = << >>
    /\ args[1] = None
    /\ ret' = <<ExitParseError>>
    /\ UNCHANGED <<puzzle, args>>
    /\ UNCHANGED exec_vars
    /\ UNCHANGED search_vars

\* main.rs:146-169: the puzzle is parsed, the config built and
\* find_trivial_solution entered (solver.rs:94-101)
VerifyParsed ==
    /\ puzzle = None
    /\ ret = << >>
    /\ args[1] # None
    /\ puzzle' = args[1][1]
    /\ config' = args[2]
    /\ queue' = <<SearchFrame_new(args[1][1])>>
    /\ UNCHANGED <<frame, programs_tested, sparse_tested, tested_programs, now, executed, solver_result>>
    /\ UNCHANGED exec_vars
    /\ UNCHANGED call_vars

\* main.rs:169: one iteration of find_trivial_solution
VerifySearch == puzzle # None /\ NextSearch

\* main.rs:171-182: the result is printed and the process exits
VerifyExit ==
    /\ solver_result # None
    /\ ret = << >>
    /\ ret' = <<IF solver_result[1].valid THEN ExitValid ELSE ExitTrivial>>
    /\ UNCHANGED <<puzzle, args>>
    /\ UNCHANGED exec_vars
    /\ UNCHANGED search_vars

NextVerify ==
    \/ VerifyParseError
    \/ VerifyParsed
    \/ VerifySearch
    \/ VerifyExit

SpecVerify == InitVerify /\ [][NextVerify]_vars

\* C20: the verify command exits with 0 when the result is valid, with 1
\* when a trivial solution was found, and on a parse error with a non-zero
\* code other than the one of a trivial solution.
C20_ParseErrorHasOwnExitCode ==
    ret # << >> =>
        /\ (args[1] # None /\ solver_result[1].valid) => ret[1] = 0
        /\ (args[1] # None /\ ~solver_result[1].valid) => ret[1] = 1
        /\ args[1] = None => (ret[1] # 0 /\ ret[1] # 1)

(***************************************************************************)
(* Properties of the pruning inside find_trivial_solution                  *)
(***************************************************************************)
\* The slots get_valid_instructions_for_slot can produce before the pair
\* filter: each allowed type, unconditional or conditioned on a colour of the
\* grid, a paint never conditioned on its own colour
VariantSlots(p) ==
    {Some(v) : v \in {Instruction(p.allowed_instructions[k], c) :
                        k \in 1..Len(p.allowed_instructions),
                        c \in {None} \cup {Some(col) : col \in available_colors(p)}} \
                     {Instruction(t, paint_color(t)) :
                          t \in {"PaintRed", "PaintGreen", "PaintBlue"}}}

\* The complete programs the search tests when should_reject_program is
\* applied to complete candidates only (solver.rs:122), not to the children
\* pushed at solver.rs:202: every slot filled, at most max_instructions
\* instructions, not rejected
CompleteCandidates(p, c) ==
    {prog \in Programs(p.function_lengths, VariantSlots(p)) :
        /\ count_instructions(prog) <= c.max_instructions
        /\ ~should_reject_program(prog, p)}

\* C21: pruning partial children does not change the verdict: when the
\* search drains its worklist and returns valid = true, no complete program
\* that passes should_reject_program and has at most max_instructions
\* instructions is a trivial solution, as every such program was reached
\* and tested.
C21_PruningKeepsVerdict ==
    (Returned /\ SolverResult.valid /\ SolverResult.search_exhausted)
        => \A prog \in CompleteCandidates(puzzle, config) :
               ~IsTrivialProgram(puzzle, config, prog)

(***************************************************************************)
(* Properties of the interpreter loop                                      *)
(***************************************************************************)
\* C22: whenever the stack is empty after a popped frame was processed, be it
\* a charged instruction, an empty slot or an instruction whose condition did
\* not match, and F1 has at least one slot, the slots of F1 are re-pushed
\* with slot 0 on top and the run continues; the loop is never left with an
\* empty stack while F1 has slots.
C22_EmptyStackRestartsF1 ==
    /\ [][(/\ Running
           /\ ~StepLimitReached(Locals, max_steps)
           /\ ~StackTooDeep(Locals)
           /\ Len(stack) = 1
           /\ Len(program[1]) > 0
           /\ result' = None
           /\ ~(Dispatched /\ is_function_call(ChargedType)))
              => stack' = [k \in 1..Len(program[1]) |-> <<0, Len(program[1]) - k>>]]_vars
    /\ []((result = None /\ stack = << >>) => Len(program[1]) = 0)

\* The number of slots of the puzzle
SlotCount(p) ==
    p.function_lengths[1] + p.function_lengths[2] + p.function_lengths[3]
        + p.function_lengths[4] + p.function_lengths[5]

\* C23: the skip-slot branch lets the search test sparse programs: for a
\* puzzle with at least two slots, max_instructions not limiting, a search
\* that drained its worklist has popped with next_slot absent, counted and
\* tested at least one program in which a slot is empty.
C23_SparseProgramsAreTested ==
    (/\ Returned
     /\ SolverResult.search_exhausted
     /\ SlotCount(puzzle) >= 2
     /\ config.max_instructions >= SlotCount(puzzle))
        => sparse_tested > 0

\* C24: a popped frame that still has a next_slot and whose program already
\* has count_instructions >= max_instructions is dropped: it is neither
\* expanded nor tested nor counted in programs_tested; and every program
\* passed to execute has at most max_instructions instructions.
C24_FullFramesAreDropped ==
    /\ [][(/\ Searching
           /\ now' <= config.timeout
           /\ Back.next_slot # None
           /\ count_instructions(Back.program) >= config.max_instructions)
              => /\ frame' = Some(Back)
                 /\ queue' = SubSeq(queue, 1, Len(queue) - 1)
                 /\ programs_tested' = programs_tested
                 /\ executed' = executed
                 /\ solver_result' = None]_vars
    /\ [](executed # None =>
             count_instructions(executed[1]) <= config.max_instructions)

\* A frame with two of three slots filled was dropped under a limit of two
\* instructions, before the deadline
C24_Witness ==
    /\ frame # None
    /\ frame[1].next_slot # None
    /\ count_instructions(frame[1].program) = config.max_instructions
    /\ SlotCount(puzzle) > config.max_instructions
    /\ now <= config.timeout
    /\ solver_result = None

\* C25: a charged call of a function with n >= 1 slots puts its n frames on
\* the stack above the remaining frames of the caller, slot 0 on top and the
\* slots in ascending order below it, and increments functions_called by
\* one; a charged call of a function with 0 slots pushes nothing and leaves
\* functions_called unchanged; both are charged one step.  (When nothing is
\* pushed and no frame remains, the slots of F1 are re-pushed.)
C25_CallPushesCalleeSlots ==
    [][(Dispatched /\ is_function_call(ChargedType)) =>
          LET target == CASE ChargedType = "F1" -> 0
                          [] ChargedType = "F2" -> 1
                          [] ChargedType = "F3" -> 2
                          [] ChargedType = "F4" -> 3
                          [] ChargedType = "F5" -> 4
              n == Len(program[target + 1])
              rest == SubSeq(stack, 1, Len(stack) - 1)
          IN  /\ metrics'.steps = metrics.steps + 1
              /\ result' = None
              /\ n >= 1 =>
                    /\ Len(stack') = Len(rest) + n
                    /\ SubSeq(stack', 1, Len(rest)) = rest
                    /\ \A i \in 0..(n - 1) : stack'[Len(stack') - i] = <<target, i>>
                    /\ metrics'.functions_called = metrics.functions_called + 1
              /\ n = 0 =>
                    /\ metrics'.functions_called = metrics.functions_called
                    /\ stack' = IF rest = << >>
                                THEN [k \in 1..Len(program[1]) |->
                                         <<0, Len(program[1]) - k>>]
                                ELSE rest]_vars

\* F1 = [F1, ...] after its first call: the two frames of the callee lie
\* above the remaining frame of the caller, slot 0 on top
C25_Witness ==
    /\ result = None
    /\ metrics.steps = 1
    /\ metrics.functions_called = 1
    /\ stack = << <<0, 1>>, <<0, 1>>, <<0, 0>> >>

\* C26: a charged Forward whose destination has a negative coordinate, lies
\* beyond the rows or beyond the columns of its row, or is a cell without a
\* tile ends the run with status Fell and solved = false: the step is counted
\* in the returned metrics, and the position, tiles_visited, the visited
\* set, stars_collected and the grid are as before the step.  No other
\* iteration returns Fell.
C26_ForwardOffGridFalls ==
    [][result = None =>
          LET new_x == state.position.x + delta(state.direction)[1]
              new_y == state.position.y + delta(state.direction)[2]
              off == \/ new_x < 0
                     \/ new_y < 0
                     \/ new_y >= Len(state.tiles)
                     \/ new_x >= Len(state.tiles[new_y + 1])
                     \/ state.tiles[new_y + 1][new_x + 1] = None
              falls == Dispatched /\ ChargedType = "Forward" /\ off
          IN  /\ falls <=> (result' # None /\ result'[1].status = "Fell")
              /\ falls =>
                    /\ ~result'[1].solved
                    /\ result'[1].metrics = metrics'
                    /\ metrics' = [metrics EXCEPT !.steps = @ + 1,
                                                  !.max_stack_depth = metrics'.max_stack_depth,
                                                  !.conditionals_executed =
                                                      metrics'.conditionals_executed]
                    /\ state' = state
                    /\ visited_tiles' = visited_tiles]_vars

\* The robot stepped from the start tile of the two-star puzzle into the
\* hole below it: the destination is inside the grid and holds no tile
C26_Witness ==
    /\ ExecReturned
    /\ ExecutionResult.status = "Fell"
    /\ ExecutionResult.metrics.steps = 2
    /\ puzzle = TwoStarPuzzle
    /\ state.position = Position(0, 0)
    /\ state.direction = "Down"

\* C27: a charged paint instruction changes only the colour of the tile
\* under the robot, to the painted colour (and nothing when the robot stands
\* on no tile): the position, the direction, has_star of every tile,
\* stars_remaining, stars_collected, tiles_visited and the frames left on the
\* stack are unchanged, the run continues, and the colour the condition
\* check reads on that tile is the new one.  (When no frame is left, the
\* slots of F1 are re-pushed.)
C27_PaintChangesOnlyColour ==
    [][(Dispatched /\ is_paint(ChargedType)) =>
          LET painted == CASE ChargedType = "PaintRed" -> "Red"
                           [] ChargedType = "PaintGreen" -> "Green"
                           [] ChargedType = "PaintBlue" -> "Blue"
              row == state.position.y + 1
              col == state.position.x + 1
              on_tile == /\ row \in 1..Len(state.tiles)
                         /\ col \in 1..Len(state.tiles[row])
                         /\ state.tiles[row][col] # None
              rest == SubSeq(stack, 1, Len(stack) - 1)
          IN  /\ result' = None
              /\ metrics'.steps = metrics.steps + 1
              /\ state'.position = state.position
              /\ state'.direction = state.direction
              /\ state'.stars_remaining = state.stars_remaining
              /\ metrics'.stars_collected = metrics.stars_collected
              /\ metrics'.tiles_visited = metrics.tiles_visited
              /\ visited_tiles' = visited_tiles
              /\ Len(state'.tiles) = Len(state.tiles)
              /\ \A r \in 1..Len(state.tiles) :
                    /\ Len(state'.tiles[r]) = Len(state.tiles[r])
                    /\ \A c \in 1..Len(state.tiles[r]) :
                          IF on_tile /\ r = row /\ c = col
                          THEN state'.tiles[r][c] =
                                   Some([color |-> Some(painted),
                                         has_star |-> state.tiles[r][c][1].has_star])
                          ELSE state'.tiles[r][c] = state.tiles[r][c]
              /\ stack' = IF rest = << >>
                          THEN [k \in 1..Len(program[1]) |-> <<0, Len(program[1]) - k>>]
                          ELSE rest
              /\ on_tile =>
                    \A c \in TileColor :
                        should_execute(CondInst("Forward", c), current_color(state'))
                            <=> (c = painted)]_vars

\* The starred red tile under the robot was painted green and kept its star
C27_Witness ==
    /\ puzzle = StarStartPuzzle
    /\ result = None
    /\ metrics.paints_executed = 1
    /\ metrics.steps = 1
    /\ state.position = Position(0, 0)
    /\ state.tiles[1][1] = Some(Tile(Some("Green"), TRUE))
    /\ state.stars_remaining = 2

\* F1 = [F1, F1]: every charged step leaves the stack one frame longer
GrowingProgram == program = ProgramOf(<<Some(Inst("F1")), Some(Inst("F1"))>>)

\* C28: an iteration returns StackOverflow exactly when at its top
\* steps < max_steps and the stack holds more than 256 frames; when the step
\* budget is reached and the stack holds more than 256 frames at the same
\* iteration, the status is Timeout.  F1 = [F1, F1] with max_steps = 300 ends
\* in StackOverflow, after 255 steps, and not in Cycle.
C28_StackOverflowAboveCap ==
    /\ [][result = None =>
             /\ (result' # None /\ result'[1].status = "StackOverflow")
                    <=> (metrics.steps < max_steps /\ Len(stack) > 256)
             /\ (metrics.steps >= max_steps /\ Len(stack) > 256)
                    => (result' # None /\ result'[1].status = "Timeout")]_vars
    /\ []((GrowingProgram /\ max_steps = 300 /\ ExecReturned) =>
             /\ ExecutionResult.status = "StackOverflow"
             /\ ExecutionResult.metrics.steps = 255)

\* The overflow of F1 = [F1, F1]: 257 frames at the top of the iteration
C28_Witness ==
    /\ GrowingProgram
    /\ ExecReturned
    /\ ExecutionResult.status = "StackOverflow"
    /\ Len(stack) = 257
    /\ ExecutionResult.metrics.max_stack_depth = 256
    /\ ExecutionResult.metrics.functions_called = 255

\* C29: the state is sampled only at a charged instruction reached with
\* steps % 16 = 0, before the step is counted; the sample is the tuple of the
\* robot's x, y and direction, stars_remaining, the top <= 4 frames of the
\* stack after the pop and the length of that stack, without tile colours and
\* without the visited set.  An iteration returns Cycle only if its sample
\* equals a sample taken earlier in the same run, so on Cycle steps is a
\* positive multiple of 16.
C29_CycleOnRepeatedSample ==
    /\ [][result = None =>
             LET rest == SubSeq(stack, 1, Len(stack) - 1)
                 top4 == IF Len(rest) <= 4 THEN rest
                         ELSE SubSeq(rest, Len(rest) - 3, Len(rest))
                 sample == <<state.position.x, state.position.y, state.direction,
                             state.stars_remaining, top4, Len(rest)>>
                 sampling == Charged /\ metrics.steps % 16 = 0
             IN  /\ (result' # None /\ result'[1].status = "Cycle")
                        <=> (sampling /\ sample \in seen_states)
                 /\ seen_states' = IF sampling THEN seen_states \cup {sample}
                                   ELSE seen_states]_vars
    /\ []((ExecReturned /\ ExecutionResult.status = "Cycle") =>
             /\ ExecutionResult.metrics.steps > 0
             /\ ExecutionResult.metrics.steps % 16 = 0)
    /\ []((result = None /\ metrics.steps = 0) => seen_states = {})

\* Cycle at the second sample although the start tile was red at the first
\* sample and is green at the second
C29_Witness ==
    /\ ExecReturned
    /\ ExecutionResult.status = "Cycle"
    /\ ExecutionResult.metrics.steps = 16
    /\ ExecutionResult.metrics.paints_executed > 0
    /\ state.position = puzzle.robot_start.position
    /\ current_color(state) # current_color(from_puzzle(puzzle))

\* C30: the paint/turn/condition trio rule is justified by the executor: in
\* every run, when the frame about to be popped holds an instruction c with
\* a condition colour, and the two non-empty slots before it in its function
\* are b, a turn or Noop under any condition, and before that a, an
\* unconditional paint of another colour than c's condition, then a was
\* charged and b popped since, the condition of c does not match, and c is
\* skipped without being charged.
C30_TrioRuleIsJustified ==
    [][(Running /\ ~StepLimitReached(Locals, max_steps) /\ ~StackTooDeep(Locals)) =>
          LET func == get_function(program, stack[Len(stack)][1])
              k == stack[Len(stack)][2] + 1
              Filled(n) == {i \in 1..(n - 1) : func[i] # None}
              Last(S) == CHOOSE i \in S : \A j \in S : j <= i
              after_paint ==
                  /\ k \in 1..Len(func)
                  /\ func[k] # None
                  /\ func[k][1].condition # None
                  /\ Filled(k) # {}
                  /\ Filled(Last(Filled(k))) # {}
                  /\ LET b == func[Last(Filled(k))][1]
                         a == func[Last(Filled(Last(Filled(k))))][1]
                     IN  /\ b.instruction_type \in {"Left", "Right", "Noop"}
                         /\ a.instruction_type \in {"PaintRed", "PaintGreen", "PaintBlue"}
                         /\ a.condition = None
                         /\ func[k][1].condition # paint_color(a.instruction_type)
          IN  after_paint =>
                 /\ current_color(state) # func[k][1].condition
                 /\ result' = None
                 /\ metrics'.steps = metrics.steps
                 /\ metrics'.conditionals_executed = metrics.conditionals_executed
                 /\ state' = state
                 /\ stack' = SubSeq(stack, 1, Len(stack) - 1)]_vars

\* F1 = [PaintGreen, Right, Red:Forward] from the red start tile: the paint
\* and the turn were charged and Red:Forward was popped and skipped
C30_Witness ==
    /\ puzzle = TwoStarPuzzle
    /\ program = ProgramOf(<<Some(Inst("PaintGreen")), Some(Inst("Right")),
                             Some(CondInst("Forward", "Red"))>>)
    /\ result = None
    /\ metrics.steps = 2
    /\ metrics.paints_executed = 1
    /\ metrics.max_stack_depth = 3
    /\ stack = << >>

\* C31: should_reject_program returns true for a program holding an
\* instruction whose condition colour is on no tile of the puzzle's grid,
\* also when a paint of that colour is allowed, and for a program holding a
\* call of a function that has no non-empty slot, be it a function without
\* slots or one whose slots are not filled yet.
C31_RejectsDeadConditionsAndEmptyCallees ==
    ret # << >> =>
        LET prog == args[1]
            grid == args[2].grid
            grid_colours ==
                {col \in {"Red", "Green", "Blue"} :
                    \E r \in 1..Len(grid) : \E c \in 1..Len(grid[r]) :
                        grid[r][c] # None /\ grid[r][c][1].color = <<col>>}
            filled == {s \in (1..5) \X (1..5) :
                          s[2] <= Len(prog[s[1]]) /\ prog[s[1]][s[2]] # None}
            target(t) == CASE t = "F1" -> 1 [] t = "F2" -> 2 [] t = "F3" -> 3
                           [] t = "F4" -> 4 [] t = "F5" -> 5
            dead_condition ==
                \E s \in filled :
                    /\ prog[s[1]][s[2]][1].condition # << >>
                    /\ prog[s[1]][s[2]][1].condition[1] \notin grid_colours
            empty_callee ==
                \E s \in filled :
                    /\ prog[s[1]][s[2]][1].instruction_type \in {"F1", "F2", "F3", "F4", "F5"}
                    /\ \A u \in filled :
                          u[1] # target(prog[s[1]][s[2]][1].instruction_type)
        IN  (dead_condition \/ empty_callee) => ret[1]

\* Rejected for Blue:Forward alone, on a red grid with PaintBlue allowed
C31_Witness ==
    /\ ret = <<TRUE>>
    /\ args[2] = PaintTestPuzzle
    /\ args[1] = <<<<Some(CondInst("Forward", "Blue")), None>>, <<None>>, << >>, << >>, << >>>>

\* C32: should_reject_program returns true whenever, inside one function, two
\* filled slots with only empty slots between them hold a banned pair, or
\* three such slots in a row hold a banned trio; and instructions of
\* different functions are never combined: a program with no such pair or
\* trio inside one function is rejected only on one of the other grounds.
C32_SequencesIgnoreEmptySlots ==
    ret # << >> =>
        LET prog == args[1]
            p == args[2]
            next(f, i, j) ==
                /\ i < j
                /\ prog[f][i] # None
                /\ prog[f][j] # None
                /\ \A k \in (i + 1)..(j - 1) : prog[f][k] = None
            banned_inside(f) ==
                LET S == 1..Len(prog[f]) IN
                \/ \E i, j \in S :
                      /\ next(f, i, j)
                      /\ is_banned_pair(prog[f][i][1], prog[f][j][1], p)
                \/ \E i, j, k \in S :
                      /\ next(f, i, j)
                      /\ next(f, j, k)
                      /\ is_banned_trio(prog[f][i][1], prog[f][j][1], prog[f][k][1], p)
            other_ground ==
                \/ HasUnreachableFunction(prog)
                \/ HasInvalidConditional(prog, p)
                \/ CallsEmptyFunction(prog)
        IN  /\ (\E f \in 1..5 : banned_inside(f)) => ret[1]
            /\ (ret[1] /\ ~other_ground) => \E f \in 1..5 : banned_inside(f)

\* Three left turns around an empty slot, rejected
C32_Witness ==
    /\ ret = <<TRUE>>
    /\ args[1] = <<<<Some(Inst("Left")), None, Some(Inst("Left")), Some(Inst("Left"))>>,
                   <<None>>, << >>, << >>, << >>>>

(***************************************************************************)
(* pruning.rs: get_valid_instructions_for_slot as a function of its        *)
(* arguments                                                               *)
(***************************************************************************)
\* A red and a blue tile, turns and PaintRed allowed; every partial and
\* complete program of Left and PaintRed under no condition, Red or Blue;
\* every slot of F1 (two slots) and F2 (one slot); both iteration orders of
\* the colour set
InitValid ==
    /\ \E prog \in Programs(<<2, 1, 0, 0, 0>>,
                              Slots({"Left", "PaintRed"}, {None, Some("Red"), Some("Blue")})),
          slot \in {<<0, 0>>, <<0, 1>>, <<1, 0>>},
          colors \in ColorOrders({"Red", "Blue"}) :
          args = <<prog, slot[1], slot[2],
                   [BlueTestPuzzle EXCEPT
                       !.function_lengths = <<2, 1, 0, 0, 0>>,
                       !.allowed_instructions = <<"Left", "Right", "PaintRed">>],
                   colors>>
    /\ ret = << >>
    /\ PureIdle

\* get_valid_instructions_for_slot(&program, func_index, inst_index, &puzzle)
CallValid ==
    /\ ret = << >>
    /\ ret' = <<get_valid_instructions_for_slot(args[1], args[2], args[3], args[4], args[5])>>
    /\ UNCHANGED <<puzzle, args>>
    /\ UNCHANGED exec_vars
    /\ UNCHANGED search_vars

SpecValid == InitValid /\ [][CallValid]_vars

\* C33: get_valid_instructions_for_slot returns, each once, exactly the
\* unconditional variant of every allowed type and one variant per colour of
\* the grid, without the paints under the condition of their own colour and
\* without the variants that form a banned pair after the instruction of the
\* slot before (fi, ii); with ii = 0 or that slot empty nothing is removed
\* as a pair; no type outside allowed_instructions and no condition colour
\* absent from the grid is returned.
C33_ValidInstructionsForSlot ==
    ret # << >> =>
        LET prog == args[1]
            fi == args[2]
            ii == args[3]
            p == args[4]
            allowed == {p.allowed_instructions[k] : k \in 1..Len(p.allowed_instructions)}
            grid_colours ==
                {col \in {"Red", "Green", "Blue"} :
                    \E r \in 1..Len(p.grid) : \E c \in 1..Len(p.grid[r]) :
                        p.grid[r][c] # None /\ p.grid[r][c][1].color = <<col>>}
            own_colour(t) == CASE t = "PaintRed" -> <<"Red">>
                               [] t = "PaintGreen" -> <<"Green">>
                               [] t = "PaintBlue" -> <<"Blue">>
                               [] OTHER -> <<"none">>
            variants ==
                {v \in [instruction_type : allowed,
                        condition : {<< >>} \cup {<<c>> : c \in grid_colours}] :
                    v.condition # own_colour(v.instruction_type)}
            before == IF ii = 0 THEN << >> ELSE prog[fi + 1][ii]
            returned == {ret[1][k] : k \in 1..Len(ret[1])}
        IN  /\ returned = {v \in variants :
                              before = << >> \/ ~is_banned_pair(before[1], v, p)}
            /\ Len(ret[1]) = Cardinality(returned)
            /\ before = << >> => returned = variants
            /\ \A v \in returned :
                  /\ v.instruction_type \in allowed
                  /\ v.condition # << >> => v.condition[1] \in grid_colours

\* After an unconditional Left in slot (0, 0): the seven variants left of
\* the eight, Right alone being removed
C33_Witness ==
    /\ ret # << >>
    /\ <<args[2], args[3]>> = <<0, 1>>
    /\ args[1][1][1] = Some(Inst("Left"))
    /\ Len(ret[1]) = 7
    /\ \A k \in 1..7 : ret[1][k] # Inst("Right")
    /\ \E k \in 1..7 : ret[1][k] = CondInst("Right", "Red")
    /\ \E k \in 1..7 : ret[1][k] = CondInst("PaintRed", "Blue")

(***************************************************************************)
(* solver.rs: format_trivial_reason as a function of its arguments         *)
(***************************************************************************)
InitReason ==
    /\ \E m \in MinimumsMetrics, c \in MinimumsConstraints : args = <<m, c>>
    /\ ret = << >>
    /\ PureIdle

\* format_trivial_reason(&metrics, min)
CallReason ==
    /\ ret = << >>
    /\ ret' = <<format_trivial_reason(args[1], args[2])>>
    /\ UNCHANGED <<puzzle, args>>
    /\ UNCHANGED exec_vars
    /\ UNCHANGED search_vars

SpecReason == InitReason /\ [][CallReason]_vars

\* C34: the reason holds one entry for a threshold exactly when the
\* comparison with that threshold failed, the entries in the order
\* instructions, steps, recursion_depth, conditionals, step_ratio; it is
\* "unknown" exactly when no comparison failed, which is never the case for
\* metrics that is_below_minimums accepts, the only ones for which
\* find_trivial_solution builds a reason.
C34_ReasonListsFailedThresholds ==
    ret # << >> =>
        LET m == args[1]
            c == args[2]
            order == <<"instructions", "steps", "recursion_depth", "conditionals",
                       "step_ratio">>
            failed(name) ==
                CASE name = "instructions" -> m.instructions < c.instructions
                  [] name = "steps" -> m.steps < c.steps
                  [] name = "recursion_depth" -> m.max_stack_depth < c.recursion_depth
                  [] name = "conditionals" -> m.conditionals_executed < c.conditionals
                  [] name = "step_ratio" ->
                        IF m.instructions = 0 THEN 0 < c.step_ratio
                        ELSE (10 * m.steps) \div m.instructions < c.step_ratio
            names == [k \in 1..Len(ret[1]) |-> ret[1][k][1]]
            none_failed == \A k \in 1..5 : ~failed(order[k])
        IN  /\ none_failed <=> names = <<"unknown">>
            /\ ~none_failed => names = SelectSeq(order, failed)
            /\ is_below_minimums(m, c) => names # <<"unknown">>

\* 3 instructions, 10 steps, depth 2, 1 conditional under the defaults: four
\* entries, the ratio 3.3 not among them
C34_Witness ==
    /\ args = <<[instructions |-> 3, steps |-> 10, max_stack_depth |-> 2,
                 conditionals_executed |-> 1], DefaultMinConstraints>>
    /\ ret # << >>
    /\ [k \in 1..Len(ret[1]) |-> ret[1][k][1]] =
           <<"instructions", "steps", "recursion_depth", "conditionals">>

(***************************************************************************)
(* Properties of the metrics of execute                                    *)
(***************************************************************************)
\* C35 as stated: in every ExecutionResult conditionals_executed is at most
\* steps.
C35_ConditionalsWithinSteps ==
    ExecReturned =>
        ExecutionResult.metrics.conditionals_executed <= ExecutionResult.metrics.steps

\* C35 as the code has it: in every ExecutionResult conditionals_executed is
\* at most steps, except in a Cycle result, where it is at most steps + 1:
\* the instruction that meets the seen state is counted and not charged.
\* During the run conditionals_executed never exceeds steps.
C35_ConditionalsWithinStepsButCycle ==
    /\ ~ExecReturned => metrics.conditionals_executed <= metrics.steps
    /\ ExecReturned =>
          ExecutionResult.metrics.conditionals_executed <=
              ExecutionResult.metrics.steps +
                  (IF ExecutionResult.status = "Cycle" THEN 1 ELSE 0)

\* A Cycle result with one conditional more than steps
C35_Witness ==
    /\ ExecReturned
    /\ ExecutionResult.status = "Cycle"
    /\ ExecutionResult.metrics.conditionals_executed = ExecutionResult.metrics.steps + 1
    /\ ExecutionResult.metrics.steps > 0

\* C36: at every point of a run stars_collected plus the number of tiles
\* still holding a star equals total_stars, stars_remaining is that number
\* of tiles and is never below zero; a star is collected once: a step that
\* raises stars_collected raises it by one and clears the star of the tile
\* the robot enters.
C36_StarsAreConserved ==
    LET stars(tiles) ==
            Cardinality({c \in (1..Len(tiles)) \X (1..Len(tiles[1])) :
                            /\ c[2] <= Len(tiles[c[1]])
                            /\ tiles[c[1]][c[2]] # << >>
                            /\ tiles[c[1]][c[2]][1].has_star})
    IN  /\ metrics.stars_collected + stars(state.tiles) = metrics.total_stars
        /\ state.stars_remaining = stars(state.tiles)
        /\ state.stars_remaining >= 0
        /\ metrics.total_stars = stars(puzzle.grid)
        /\ ExecReturned =>
              /\ ExecutionResult.metrics.stars_collected = metrics.stars_collected
              /\ ExecutionResult.metrics.total_stars = metrics.total_stars

\* Two of three stars collected, the start tile's among them, and the robot
\* for the second time on the tile whose star it collected first
C36_Witness ==
    /\ Running
    /\ metrics.total_stars = 3
    /\ metrics.stars_collected = 2
    /\ state.stars_remaining = 1
    /\ metrics.steps = 7
    /\ state.position = Position(2, 0)
    /\ puzzle.grid[1][3][1].has_star
    /\ ~state.tiles[1][3][1].has_star
    /\ ~state.tiles[1][2][1].has_star

\* C37: when the start position is a tile the robot is on a tile at every
\* point of the run.  The set of visited positions starts as the start
\* position alone and gains exactly the position the robot is in after each
\* loop iteration, so it is the set of distinct positions occupied, and
\* tiles_visited is its size, in the result too.
C37_RobotOnTilesVisitsCounted ==
    [][LET start == <<puzzle.robot_start.position.x, puzzle.robot_start.position.y>>
           here == <<state.position.x, state.position.y>>
           next == <<state'.position.x, state'.position.y>>
       IN  /\ metrics.steps = 0 => visited_tiles = {start}
           /\ here \in visited_tiles
           /\ metrics.tiles_visited = Cardinality(visited_tiles)
           /\ IF call' = call
              THEN visited_tiles' = visited_tiles \cup {next}
              ELSE visited_tiles' = {start}
           /\ metrics'.tiles_visited = Cardinality(visited_tiles')
           /\ result' # << >> => result'[1].metrics.tiles_visited = Cardinality(visited_tiles')
           /\ get_tile(puzzle.grid, start[1], start[2]) # << >> =>
                 /\ get_tile(state.tiles, here[1], here[2]) # << >>
                 /\ get_tile(state'.tiles, next[1], next[2]) # << >>]_vars

\* Back on the start tile after a visit to its neighbour: two tiles visited
\* in four steps
C37_Witness ==
    /\ Running
    /\ metrics.steps = 4
    /\ state.position = puzzle.robot_start.position
    /\ visited_tiles = {<<1, 0>>, <<2, 0>>}
    /\ metrics.tiles_visited = 2

(***************************************************************************)
(* executor.rs: execute under two step budgets                             *)
(***************************************************************************)
\* verify_solution: execute(puzzle, program, 500)
VerifyMaxSteps == 500

\* The runs of the state machine above, each with a second budget that is
\* the same, one more, twice as large, or the budget of verify_solution
InitBudget ==
    /\ \E in \in ExecInputs :
          \E more \in {in[3], in[3] + 1, 2 * in[3], VerifyMaxSteps} :
              /\ in[3] <= 100
              /\ more >= in[3]
              /\ args = <<in[1], in[2], in[3], more>>
    /\ ret = << >>
    /\ PureIdle

\* execute(&puzzle, &program, n) and execute(&puzzle, &program, n')
CallBudget ==
    /\ ret = << >>
    /\ ret' = <<execute(args[1], args[2], args[3]), execute(args[1], args[2], args[4])>>
    /\ UNCHANGED <<puzzle, args>>
    /\ UNCHANGED exec_vars
    /\ UNCHANGED search_vars

SpecBudget == InitBudget /\ [][CallBudget]_vars

\* C38: when execute(p, prog, n) returns a status other than Timeout,
\* execute(p, prog, n') returns the same status, metrics and solved flag for
\* every n' >= n.
C38_LargerBudgetSameResult ==
    (ret # << >> /\ ret[1].status # "Timeout") => ret[2] = ret[1]

\* A cycle found at step 16 under a budget of 100 and under 500
C38_Witness ==
    /\ ret # << >>
    /\ args[3] = 100
    /\ args[4] = VerifyMaxSteps
    /\ ret[1].status = "Cycle"
    /\ ret[1].metrics.steps = 16
    /\ ret[2] = ret[1]

(***************************************************************************)
(* Properties of the enumeration of find_trivial_solution                  *)
(***************************************************************************)
\* C39: in one run of find_trivial_solution no complete program is tested
\* twice: the frames popped with next_slot absent hold pairwise different
\* programs, so programs_tested is the number of distinct programs tested.
C39_NoProgramTestedTwice ==
    programs_tested = Cardinality(tested_programs)

====
